---- MODULE Spec2Model ----
(***************************************************************************)
(* A model of the MSIX maker of src/msixMaker.ts (the current version of   *)
(* the file, lines 200-899): MakerMSIX.make and the helpers it awaits.     *)
(*                                                                         *)
(* One behaviour is one run of make.  Every awaited call of make is one    *)
(* action; the two writes make starts without awaiting them (the manifest  *)
(* document and the file-mapping file) settle in actions of their own,     *)
(* which the event loop may schedule at any later point.                   *)
(*                                                                         *)
(* A file path is a record [dir, stem, ext]: dir the sequence of directory *)
(* names below options.makeDir, stem.ext the file name.  A directory path  *)
(* is a sequence of directory names.                                       *)
(***************************************************************************)
EXTENDS Integers, Sequences, FiniteSets, TLC

VARIABLES
    options,        \* MakerOptions: appName, targetArch, version, dir
    config,         \* MakerMSIXConfig; an optional field is absent from DOMAIN
    env,            \* process.env restricted to CSC_LINK, CSC_KEY_PASSWORD
    env0,           \* process.env as it was when make was called
    disk,           \* files below makeDir: file path -> content tag
    dirs,           \* directories below makeDir
    pc,             \* the await make is about to perform
    result,         \* "running", "rejected" or "resolved": make's promise
    error,          \* the message of the error make rejected with
    artifacts,      \* the list make resolved with
    calls,          \* external tools and libraries invoked so far, in order
    executable,     \* inventory's primary executable
    publisher,      \* the resolved publisher
    manifestConfig, \* MSIXAppManifestMetadata, <<>> before it is made
    installMapping,
    imageAssetMapping,
    appManifestMapping,
    priFileMapping,
    contentTypeFileMapping,
    manifestMapping,    \* the merged mapping handed to writeMappingFile
    appInstallerPath,   \* <<path>> or <<>> (undefined)
    manifestXML,        \* the document makeAppManifest hands to fs.writeFile, <<>> before
    manifestWrite,      \* fs.writeFile of makeAppManifest: none/pending/done/failed
    mappingWrite,       \* fs.writeFile of writeMappingFile: none/pending/done/failed
    platform,           \* process.platform
    proc                \* one call of run followed event by event: the child
                        \* and the variables of the closure; <<>> when the
                        \* calls of run are taken as single steps

vars == <<options, config, env, env0, disk, dirs, pc, result, error, artifacts,
          calls, executable, publisher, manifestConfig, installMapping, imageAssetMapping,
          appManifestMapping, priFileMapping, contentTypeFileMapping,
          manifestMapping, appInstallerPath, manifestXML, manifestWrite, mappingWrite,
          platform, proc>>

----------------------------------------------------------------------------
(* Bounds *)

\* the largest number of files in the source tree options.dir
MaxFiles == 2

\* the largest length of the version strings drawn from the alphabet
MaxVersionLen == 5

\* the largest number of characters a child process writes to its stdout
MaxOutputLen == 4

----------------------------------------------------------------------------
(* Strings and paths *)

RECURSIVE Join(_)
\* the string made of a sequence of one-character strings
Join(cs) == IF cs = <<>> THEN "" ELSE Head(cs) \o Join(Tail(cs))

\* JavaScript truthiness of a string
Truthy(s) == s # ""

LowerLetters ==
    <<"a","b","c","d","e","f","g","h","i","j","k","l","m",
      "n","o","p","q","r","s","t","u","v","w","x","y","z">>

UpperLetters ==
    <<"A","B","C","D","E","F","G","H","I","J","K","L","M",
      "N","O","P","Q","R","S","T","U","V","W","X","Y","Z">>

IndexIn(c, alphabet) ==
    IF \E i \in 1..Len(alphabet) : alphabet[i] = c
    THEN CHOOSE i \in 1..Len(alphabet) : alphabet[i] = c
    ELSE 0

\* String.prototype.toUpperCase, one character
UpperChar(c) ==
    IF IndexIn(c, LowerLetters) > 0 THEN UpperLetters[IndexIn(c, LowerLetters)] ELSE c

\* String.prototype.toLowerCase, one character
LowerChar(c) ==
    IF IndexIn(c, UpperLetters) > 0 THEN LowerLetters[IndexIn(c, UpperLetters)] ELSE c

toUpperCase(cs) == [i \in 1..Len(cs) |-> UpperChar(cs[i])]

toLowerCase(cs) == [i \in 1..Len(cs) |-> LowerChar(cs[i])]

\* cs.replace(/[^A-Z]/, ""): the regular expression is not global, so only the
\* first character outside A-Z is removed
replaceFirstNonAZ(cs) ==
    IF \E i \in 1..Len(cs) : IndexIn(cs[i], UpperLetters) = 0
    THEN LET i == CHOOSE k \in 1..Len(cs) :
                     /\ IndexIn(cs[k], UpperLetters) = 0
                     /\ \A j \in 1..(k-1) : IndexIn(cs[j], UpperLetters) > 0
         IN  SubSeq(cs, 1, i-1) \o SubSeq(cs, i+1, Len(cs))
    ELSE cs

\* cs.slice(0, n)
slice(cs, n) == SubSeq(cs, 1, IF Len(cs) < n THEN Len(cs) ELSE n)

IsPrefix(p, s) == Len(p) <= Len(s) /\ SubSeq(s, 1, Len(p)) = p

\* every directory on the way to d, d included
Ancestors(d) == { SubSeq(d, 1, n) : n \in 1..Len(d) }

\* path.join(dir, name) of a directory and a file name
joinFile(dir, stem, ext) == [dir |-> dir, stem |-> stem, ext |-> ext]

RECURSIVE joinDirs(_)
\* the directory names of a path, each followed by the separator of win32
joinDirs(dir) == IF dir = <<>> THEN "" ELSE Head(dir) \o "\\" \o joinDirs(Tail(dir))

\* path.basename(p) as a string
basename(p) == IF p.ext = <<>> THEN p.stem ELSE p.stem \o "." \o Join(p.ext)

\* a path as the string path.join gives on win32
pathString(p) == joinDirs(p.dir) \o basename(p)

CRLF == "\r\n"

LF == "\n"

\* s.startsWith(prefix)
startsWith(str, prefix) ==
    Len(str) >= Len(prefix) /\ SubSeq(str, 1, Len(prefix)) = prefix

\* name.toLowerCase().endsWith(".exe"); file names here are ASCII
endsWithExe(p) == Join(toLowerCase(p.ext)) = "exe"

----------------------------------------------------------------------------
(* The file system below options.makeDir *)

FilesUnder(d, dk) == { p \in DOMAIN dk : IsPrefix(d, p.dir) }

\* fs.pathExists(d) of a directory path
pathExists(d, dk, ds) == d \in ds \/ FilesUnder(d, dk) # {}

\* removeFiles of a remove that deletes nothing
removeNothing(d, dk) == dk

\* fs.remove(d): the files of the disk that are left
removeFiles(d, dk) == [p \in (DOMAIN dk) \ FilesUnder(d, dk) |-> dk[p]]

\* fs.remove(d): the directories that are left
removeDirs(d, ds) == { x \in ds : ~IsPrefix(d, x) }

\* fs.ensureDir(d)
ensureDir(d, ds) == ds \cup Ancestors(d)

\* fs.writeFile / fs.copyFile / Sharp.toFile: p now holds content c
writeFile(p, c, dk) == [q \in (DOMAIN dk) \cup {p} |-> IF q = p THEN c ELSE dk[q]]

\* the staged path of a file of the source tree
stagedPath(dest, rel) == joinFile(dest \o rel.dir, rel.stem, rel.ext)

\* fs.copy(options.dir, dest): the files of the disk afterwards
copyTree(tree, dest, dk) ==
    [q \in (DOMAIN dk) \cup { stagedPath(dest, rel) : rel \in tree } |->
        IF \E rel \in tree : stagedPath(dest, rel) = q THEN "source" ELSE dk[q]]

\* fs.copy(options.dir, dest): the directories afterwards
copyTreeDirs(tree, dest, ds) ==
    ds \cup UNION { Ancestors(dest \o rel.dir) : rel \in tree }

----------------------------------------------------------------------------
(* FileMapping: a JavaScript object, that is a list of [key, value] entries *)
(* in insertion order, no key twice                                        *)

Keys(m) == { m[i].key : i \in 1..Len(m) }

Values(m) == { m[i].value : i \in 1..Len(m) }

\* the object that results from the assignments obj[e.key] = e.value made in
\* the order of the list: a key stands where it was first assigned and holds
\* the value it was last assigned
fromAssignments(entries) ==
    LET n      == Len(entries)
        firsts == SelectSeq([i \in 1..n |-> i],
                            LAMBDA i : \A j \in 1..(i - 1) : entries[j].key # entries[i].key)
        last(k) == CHOOSE i \in 1..n :
                       /\ entries[i].key = k
                       /\ \A j \in (i + 1)..n : entries[j].key # k
    IN  [x \in 1..Len(firsts) |->
            [key |-> entries[firsts[x]].key,
             value |-> entries[last(entries[firsts[x]].key)].value]]

\* Object.assign(target, source): later sources win
assign(target, source) == fromAssignments(target \o source)

----------------------------------------------------------------------------
(* Program constants *)

\* REQUIRED_APPX_DIMENSIONS; specialName "" stands for an absent specialName
REQUIRED_APPX_DIMENSIONS ==
    << [w |-> 150, h |-> 150, specialName |-> ""],
       [w |-> 44,  h |-> 44,  specialName |-> ""],
       [w |-> 310, h |-> 150, specialName |-> ""],
       [w |-> 310, h |-> 310, specialName |-> ""],
       [w |-> 71,  h |-> 71,  specialName |-> ""],
       [w |-> 50,  h |-> 50,  specialName |-> "StoreLogo"] >>

REQUIRED_APPX_SCALES == <<100, 125, 150, 200, 400>>

\* .slice(0, 10) of the application id
AppIDMaxLen == 10

\* h >= 300 || w >= 300: the sides from which an image is a banner
BannerMinSide == 300

\* Math.trunc(w * 0.85): the overlay's share of a side, in hundredths
OverlayPercent == 85

\* scale / 100.0
ScaleUnit == 100

\* .slice(0, 4) of the version components
VersionParts == 4

EXE == <<"e","x","e">>
PNG == <<"p","n","g">>
XML == <<"x","m","l">>
PRI == <<"p","r","i">>
TXT == <<"t","x","t">>
MSIX == <<"m","s","i","x">>
APPINSTALLER == <<"A","p","p","I","n","s","t","a","l","l","e","r">>
NOEXT == <<>>

----------------------------------------------------------------------------
(* The values make computes from its options *)

\* options.appName.toUpperCase().replace(/[^A-Z]/, "").slice(0, 10), unless
\* config.internalAppID is given (the ?? operator: any given string is kept),
\* as a sequence of characters
appIDChars ==
    IF "internalAppID" \in DOMAIN config
    THEN config["internalAppID"]
    ELSE slice(replaceFirstNonAZ(toUpperCase(options.appName)), AppIDMaxLen)

\* const appID
appID == Join(appIDChars)

RECURSIVE split(_, _)
\* cs.split(sep): the pieces of cs between the separators
split(cs, sep) ==
    IF \E i \in 1..Len(cs) : cs[i] = sep
    THEN LET i == CHOOSE k \in 1..Len(cs) :
                     cs[k] = sep /\ \A j \in 1..(k-1) : cs[j] # sep
         IN  <<SubSeq(cs, 1, i-1)>> \o split(SubSeq(cs, i+1, Len(cs)), sep)
    ELSE <<cs>>

RECURSIVE joinWith(_, _)
\* parts.join(sep), as a string
joinWith(parts, sep) ==
    IF parts = <<>> THEN ""
    ELSE IF Len(parts) = 1 THEN Join(Head(parts))
    ELSE Join(Head(parts)) \o sep \o joinWith(Tail(parts), sep)

\* normalizeVersion without the concat of the four zeros
normalizeVersionUnpadded(version) ==
    joinWith(slice(split(version, "."), VersionParts), ".")

\* version.split(".").concat(["0","0","0","0"]).slice(0, 4).join(".")
normalizeVersion(version) ==
    joinWith(slice(split(version, ".") \o << <<"0">>, <<"0">>, <<"0">>, <<"0">> >>,
                   VersionParts), ".")

appNameString == Join(options.appName)

\* path.join(options.makeDir, "msix/build/")
scratchPath == <<"msix", "build">>

\* path.join(scratchPath, options.appName)
programFilesPath == Append(scratchPath, appNameString)

\* path.join(options.makeDir, `${appName}-${targetArch}-msix/`)
outPath == << appNameString \o "-" \o options.targetArch \o "-msix" >>

\* path.join(outPath, `${appName}-${targetArch}-${manifestConfig.version}.msix`)
outMSIX ==
    joinFile(outPath,
             appNameString \o "-" \o options.targetArch \o "-"
                 \o normalizeVersion(options.version),
             MSIX)

\* latestMSIXPath of a finalizer that copies the artifact onto itself
latestIsVersioned == outMSIX

\* path.join(outPath, `${appName}-${targetArch}-latest.msix`)
latestMSIXPath ==
    joinFile(outPath, appNameString \o "-" \o options.targetArch \o "-latest", MSIX)

\* path.join(outPath, "filemapping.txt")
fileMappingFilenameOnDisk == joinFile(outPath, "filemapping", TXT)

\* path.join(scratchPath, "AppxManifest.xml")
manifestFilePath == joinFile(scratchPath, "AppxManifest", XML)

\* the key makeAppManifest returns
manifestKey == joinFile(<<>>, "AppxManifest", XML)

\* path.join(outPath, `${appName}-${architecture}.AppInstaller`)
installerFilePath ==
    joinFile(outPath, appNameString \o "-" \o options.targetArch, APPINSTALLER)

\* path.join(scratchPath, "resources.pri")
outPriPath == joinFile(scratchPath, "resources", PRI)

\* path.join(scratchPath, "priconfig.xml")
priConfigPath == joinFile(scratchPath, "priconfig", XML)

\* path.join(scratchPath, "[Content_Types].xml")
contentTypePath == joinFile(scratchPath, "[Content_Types]", XML)

\* writeContentTypeXML returns { fileName: outFileName }: the key is the
\* identifier fileName, not the value of the constant of that name
contentTypeKey == joinFile(<<>>, "fileName", NOEXT)

\* path.join(scratchPath, "assets")
assetPath == Append(scratchPath, "assets")

----------------------------------------------------------------------------
(* codesign *)

\* setupSigningEnv without the tests of process.env: a given field is assigned
setupSigningEnvAlways(e, cs) ==
    LET link == IF "certificateFile" \in DOMAIN cs /\ Truthy(cs["certificateFile"])
                THEN ("CSC_LINK" :> cs["certificateFile"]) @@ e
                ELSE e
    IN  IF "certificatePassword" \in DOMAIN cs /\ Truthy(cs["certificatePassword"])
        THEN ("CSC_KEY_PASSWORD" :> cs["certificatePassword"]) @@ link
        ELSE link

\* the two assignments after a successful sign, lines 360-368: a variable is
\* assigned when its value is falsy (unset or "") and the field is truthy
setupSigningEnv(e, cs) ==
    LET link == IF /\ ~("CSC_LINK" \in DOMAIN e /\ Truthy(e["CSC_LINK"]))
                   /\ "certificateFile" \in DOMAIN cs
                   /\ Truthy(cs["certificateFile"])
                THEN ("CSC_LINK" :> cs["certificateFile"]) @@ e
                ELSE e
    IN  IF /\ ~("CSC_KEY_PASSWORD" \in DOMAIN link /\ Truthy(link["CSC_KEY_PASSWORD"]))
           /\ "certificatePassword" \in DOMAIN cs
           /\ Truthy(cs["certificatePassword"])
        THEN ("CSC_KEY_PASSWORD" :> cs["certificatePassword"]) @@ link
        ELSE link

\* codesignConfigured without the test of config.codesign
codesignAlways == TRUE

\* codesignConfigured of a codesign that returns at once, whatever the config
codesignNever == FALSE

\* if (config.codesign)
codesignConfigured == "codesign" \in DOMAIN config

\* (await fs.stat(outPath)).isDirectory() of a directory path
isDirectory(d) == d \in dirs

\* one call of the signing library: mode "appDirectory" or "files"
SignCall(mode, ok) == [tool |-> "sign", arg |-> mode, exit |-> IF ok THEN 0 ELSE 1]

\* one child process spawned by run
RunCall(tool, arg, code) == [tool |-> tool, arg |-> arg, exit |-> code]

\* runRejects with neverFail taken as given by every caller
runNeverRejects(code, neverFail) == FALSE

\* runRejects of a run without the neverFail parameter
runRejectsNonzero(code, neverFail) == code # 0

\* run rejects on a nonzero exit code unless neverFail is given
runRejects(code, neverFail) == code # 0 /\ ~neverFail

ExitCodes == {0, 1}

----------------------------------------------------------------------------
(* The inputs of a run *)

NoFields == [x \in {} |-> ""]

\* files a source tree may hold, as paths relative to options.dir
SourceFiles ==
    { joinFile(<<>>, "Demo", EXE),
      joinFile(<<"bin">>, "helper", <<"E","X","E">>),
      joinFile(<<>>, "StoreLogo", PNG) }

Trees == { t \in SUBSET SourceFiles : Cardinality(t) <= MaxFiles }

AppNames == { <<"D","e","m","o">>, <<"a","s","s","e","t","s">> }

OptionsSet ==
    { [appName |-> n, targetArch |-> "x64", version |-> <<"2", ".", "1">>, dir |-> t] :
        n \in AppNames, t \in Trees }

\* config.codesign, when given: windows-sign options with optional fields
CodesignOptions ==
    { NoFields,
      "certificateFile" :> "cert.pfx",
      ("certificateFile" :> "cert.pfx") @@ ("certificatePassword" :> "secret") }

ConfigSet ==
    { ("appIcon" :> "appicon.png") @@ c @@ u @@ b :
        c \in {NoFields} \cup { "codesign" :> o : o \in CodesignOptions },
        u \in {NoFields, "publisher" :> "CN=Test"},
        b \in {NoFields, "baseDownloadURL" :> "https://example.com/apps/"} }

\* process.env: a variable is unset, set to the empty string, or set
EnvSet ==
    { NoFields,
      ("CSC_LINK" :> "") @@ ("CSC_KEY_PASSWORD" :> "envsecret"),
      "CSC_LINK" :> "env.pfx" }

\* what an earlier run of make for options o may have left below makeDir
StaleFiles(o) ==
    LET name    == Join(o.appName)
        scratch == <<"msix", "build">>
        out     == << name \o "-" \o o.targetArch \o "-msix" >>
    IN  { joinFile(<<"msix", "build", name>>, "old", <<"d","l","l">>),
          joinFile(<<"msix", "build", name>>, "Demo", EXE),
          joinFile(<<"msix", "build", "assets">>, "StoreLogo", PNG),
          joinFile(scratch, "AppxManifest", XML),
          joinFile(scratch, "resources", PRI),
          joinFile(scratch, "old", PRI),
          joinFile(out, "filemapping", TXT),
          joinFile(out, name \o "-" \o o.targetArch \o "-latest", MSIX) }

DiskSet(o) == { NoFields, [p \in StaleFiles(o) |-> "stale"] }

DirsOf(dk) == UNION { Ancestors(p.dir) : p \in DOMAIN dk }

\* no call of run is followed event by event
NoProcess == <<>>

\* the state in which make is called, with inputs drawn from the given sets
StartOn(platforms, optionsSet, configSet, envSet) ==
    /\ platform \in platforms
    /\ proc = NoProcess
    /\ options \in optionsSet
    /\ config \in configSet
    /\ env \in envSet
    /\ env0 = env
    /\ disk \in DiskSet(options)
    /\ dirs = DirsOf(disk)
    /\ pc = "remove_scratch"
    /\ result = "running"
    /\ error = ""
    /\ artifacts = <<>>
    /\ calls = <<>>
    /\ executable = <<>>
    /\ publisher = ""
    /\ installMapping = <<>>
    /\ imageAssetMapping = <<>>
    /\ appManifestMapping = <<>>
    /\ priFileMapping = <<>>
    /\ contentTypeFileMapping = <<>>
    /\ manifestMapping = <<>>
    /\ manifestConfig = <<>>
    /\ appInstallerPath = <<>>
    /\ manifestXML = <<>>
    /\ manifestWrite = "none"
    /\ mappingWrite = "none"

\* make called on the platform it is made for
Start(optionsSet, configSet, envSet) == StartOn({"win32"}, optionsSet, configSet, envSet)

Init == Start(OptionsSet, ConfigSet, EnvSet)

inputVars == <<options, config, env0, platform>>

mappingVars ==
    <<installMapping, imageAssetMapping, appManifestMapping, priFileMapping,
      contentTypeFileMapping, manifestMapping>>

writeVars == <<manifestXML, manifestWrite, mappingWrite>>

metaVars == <<executable, publisher, manifestConfig, appInstallerPath>>

\* make is at the await named at and has not settled
At(at) == result = "running" /\ pc = at

\* the awaited call throws: make rejects with msg
Rejects(msg) ==
    /\ result' = "rejected"
    /\ error' = msg
    /\ UNCHANGED <<pc, artifacts>>

\* the awaited call returns: make goes on to the await named next
GoesOn(next) ==
    /\ pc' = next
    /\ UNCHANGED <<result, error, artifacts>>

----------------------------------------------------------------------------
(* Stager: make, lines 803-823 *)

\* if (await fs.pathExists(scratchPath)) await fs.remove(scratchPath)
RemoveScratch ==
    /\ At("remove_scratch")
    /\ \/ /\ disk' = IF pathExists(scratchPath, disk, dirs)
                     THEN removeFiles(scratchPath, disk) ELSE disk
          /\ dirs' = IF pathExists(scratchPath, disk, dirs)
                     THEN removeDirs(scratchPath, dirs) ELSE dirs
          /\ GoesOn("copy_source")
       \/ /\ pathExists(scratchPath, disk, dirs)
          /\ Rejects("fs.remove failed")
          /\ UNCHANGED <<disk, dirs>>
    /\ UNCHANGED <<inputVars, proc, env, calls, mappingVars, writeVars, metaVars>>

\* await fs.ensureDir(programFilesPath); await fs.copy(options.dir, programFilesPath)
CopySource ==
    /\ At("copy_source")
    /\ \/ /\ disk' = copyTree(options.dir, programFilesPath, disk)
          /\ dirs' = copyTreeDirs(options.dir, programFilesPath,
                                  ensureDir(programFilesPath, dirs))
          /\ GoesOn("codesign_dir")
       \/ /\ Rejects("fs.copy failed")
          /\ UNCHANGED <<disk, dirs>>
    /\ UNCHANGED <<inputVars, proc, env, calls, mappingVars, writeVars, metaVars>>

\* config.codesign, or no options when it is absent
codesignOptions == IF "codesign" \in DOMAIN config THEN config["codesign"] ELSE NoFields

\* codesignRethrows with a catch block that only logs
codesignSwallows(signOk) == FALSE

\* the catch block of codesign rethrows what sign threw
codesignRethrows(signOk) == ~signOk

\* codesign(config, target): kind is what fs.stat finds at target
\* ("dir", "file" or "missing"); content is the file signed in place
codesign(kind, signedDisk, next) ==
    IF ~codesignConfigured
    THEN /\ GoesOn(next)
         /\ UNCHANGED <<env, calls, disk>>
    ELSE IF kind = "missing"
    THEN /\ Rejects("fs.stat failed")
         /\ UNCHANGED <<env, calls, disk>>
    ELSE \E signOk \in BOOLEAN :
           /\ calls' = Append(calls,
                         SignCall(IF kind = "dir" THEN "appDirectory" ELSE "files",
                                  signOk))
           /\ IF codesignRethrows(signOk)
              THEN /\ Rejects("sign failed")
                   /\ UNCHANGED <<env, disk>>
              ELSE /\ env' = setupSigningEnv(env, codesignOptions)
                   /\ disk' = IF signOk THEN signedDisk ELSE disk
                   /\ GoesOn(next)

\* await codesign(this.config, programFilesPath)
CodesignDir ==
    /\ At("codesign_dir")
    /\ codesign(IF isDirectory(programFilesPath) THEN "dir" ELSE "missing",
                disk, "prepare_out")
    /\ UNCHANGED <<inputVars, proc, dirs, mappingVars, writeVars, metaVars>>

\* if (await fs.pathExists(outPath)) await fs.remove(outPath); await fs.ensureDir(outPath)
PrepareOutPath ==
    /\ At("prepare_out")
    /\ \/ /\ disk' = IF pathExists(outPath, disk, dirs)
                     THEN removeFiles(outPath, disk) ELSE disk
          /\ dirs' = ensureDir(outPath,
                               IF pathExists(outPath, disk, dirs)
                               THEN removeDirs(outPath, dirs) ELSE dirs)
          /\ GoesOn("inventory")
       \/ /\ Rejects("fs.remove failed")
          /\ UNCHANGED <<disk, dirs>>
    /\ UNCHANGED <<inputVars, proc, env, calls, mappingVars, writeVars, metaVars>>

----------------------------------------------------------------------------
(* Inventory Resolver: inventoryInstallFilesForMapping, lines 374-397 *)

RECURSIVE Orders(_)
\* the orders in which walk may yield a set of files: the order of a directory's
\* entries is the file system's
Orders(files) ==
    IF files = {} THEN { <<>> }
    ELSE UNION { { <<f>> \o rest : rest \in Orders(files \ {f}) } : f \in files }

\* fileName.substring(rootPath.length).replace(/^[\\/]+/, "")
relativeFileName(fileName, rootPath) ==
    joinFile(SubSeq(fileName.dir, Len(rootPath) + 1, Len(fileName.dir)),
             fileName.stem, fileName.ext)

RECURSIVE inventoryLastExecutable(_, _)
\* inventoryExecutable of a loop without the test !executable: every file
\* ending in .exe replaces the one found before
inventoryLastExecutable(walked, rootPath) ==
    IF walked = <<>> THEN <<>>
    ELSE IF endsWithExe(relativeFileName(walked[Len(walked)], rootPath))
    THEN << relativeFileName(walked[Len(walked)], rootPath) >>
    ELSE inventoryLastExecutable(SubSeq(walked, 1, Len(walked) - 1), rootPath)

RECURSIVE inventoryExecutable(_, _)
\* the first file of the walk whose relative name ends in .exe, as <<name>>,
\* or <<>> when there is none
inventoryExecutable(walked, rootPath) ==
    IF walked = <<>> THEN <<>>
    ELSE IF endsWithExe(relativeFileName(Head(walked), rootPath))
    THEN << relativeFileName(Head(walked), rootPath) >>
    ELSE inventoryExecutable(Tail(walked), rootPath)

\* fileMapping[relativeFileName] = fileName for every file of the walk
inventoryMapping(walked, rootPath) ==
    fromAssignments([i \in 1..Len(walked) |->
                        [key |-> relativeFileName(walked[i], rootPath),
                         value |-> walked[i]]])

\* inventoryThrows without the check for a missing executable
inventoryNeverThrows(exe) == FALSE

\* if (!executable) throw new Error(`No executable file found in ${rootPath}`)
inventoryThrows(exe) == exe = <<>>

\* await inventoryInstallFilesForMapping(scratchPath)
Inventory ==
    /\ At("inventory")
    /\ \E walked \in Orders(FilesUnder(scratchPath, disk)) :
         IF inventoryThrows(inventoryExecutable(walked, scratchPath))
         THEN /\ Rejects("No executable file found")
              /\ UNCHANGED <<executable, installMapping>>
         ELSE /\ executable' = inventoryExecutable(walked, scratchPath)
              /\ installMapping' = inventoryMapping(walked, scratchPath)
              /\ GoesOn("images")
    /\ UNCHANGED <<inputVars, proc, env, disk, dirs, calls, imageAssetMapping,
                   appManifestMapping, priFileMapping, contentTypeFileMapping,
                   manifestMapping, writeVars, publisher, manifestConfig,
                   appInstallerPath>>

----------------------------------------------------------------------------
(* Icon Asset Generator: makeAppXImages, lines 399-459 *)

NumDimensions == Len(REQUIRED_APPX_DIMENSIONS)

NumIconSpecs == Len(REQUIRED_APPX_SCALES) * NumDimensions

\* the k-th pass of the two nested loops: scales outside, dimensions inside
iconScale(k) == REQUIRED_APPX_SCALES[((k - 1) \div NumDimensions) + 1]

iconDimensions(k) == REQUIRED_APPX_DIMENSIONS[((k - 1) % NumDimensions) + 1]

\* dimensions.specialName ?? `${appID}-${w}x${h}Logo`
baseName(id, dimensions) ==
    IF dimensions.specialName # "" THEN dimensions.specialName
    ELSE id \o "-" \o ToString(dimensions.w) \o "x" \o ToString(dimensions.h) \o "Logo"

\* imageNamewithScale of a generator that names every scale alike
imageNameIgnoringScale(id, k) == baseName(id, iconDimensions(k))

\* `${baseName}.scale-${scale}.png` without its extension
imageNamewithScale(id, k) ==
    baseName(id, iconDimensions(k)) \o ".scale-" \o ToString(iconScale(k))

pathinManifestWithoutScale(id, k) ==
    joinFile(<<"assets">>, baseName(id, iconDimensions(k)), PNG)

pathOnDiskWithoutScale(id, k) ==
    joinFile(assetPath, baseName(id, iconDimensions(k)), PNG)

pathinManifestwithScale(id, k) == joinFile(<<"assets">>, imageNamewithScale(id, k), PNG)

pathOnDiskWithScale(id, k) == joinFile(assetPath, imageNamewithScale(id, k), PNG)

\* passAssignments of a generator that registers no alias without scale
passAssignmentsScaledOnly(id, k) ==
    << [key |-> pathinManifestwithScale(id, k), value |-> pathOnDiskWithScale(id, k)] >>

\* the assignments to fileMapping of the k-th pass, lines 450-454
passAssignments(id, k) ==
    (IF iconScale(k) = 100
     THEN << [key |-> pathinManifestWithoutScale(id, k),
              value |-> pathOnDiskWithoutScale(id, k)] >>
     ELSE <<>>)
    \o << [key |-> pathinManifestwithScale(id, k), value |-> pathOnDiskWithScale(id, k)] >>

RECURSIVE assignmentsOfPasses(_, _, _)
\* the assignments of the passes lo..hi, in order
assignmentsOfPasses(id, lo, hi) ==
    IF lo > hi THEN <<>>
    ELSE IF lo = hi THEN passAssignments(id, lo)
    ELSE assignmentsOfPasses(id, lo, (lo + hi) \div 2)
             \o assignmentsOfPasses(id, ((lo + hi) \div 2) + 1, hi)

\* fileMapping when the loops are over
imagesMapping(id) == fromAssignments(assignmentsOfPasses(id, 1, NumIconSpecs))

\* the files the loops write: toFile in every pass, copyFile when scale is 100
imagesWritten(id) ==
    { pathOnDiskWithScale(id, k) : k \in 1..NumIconSpecs }
        \cup { pathOnDiskWithoutScale(id, k) :
                 k \in { j \in 1..NumIconSpecs : iconScale(j) = 100 } }

\* (h >= 300 || w >= 300) && config.wallpaperIcon
bannerPolicy(dimensions) ==
    /\ (dimensions.h >= BannerMinSide \/ dimensions.w >= BannerMinSide)
    /\ "wallpaperIcon" \in DOMAIN config
    /\ Truthy(config["wallpaperIcon"])

\* Math.trunc(n * scaleMultiplier) with scaleMultiplier = scale / 100.0: the
\* multipliers 1, 1.25, 1.5, 2 and 4 and the products are exact in binary
\* floating point
scaledSide(n, scale) == (n * scale) \div ScaleUnit

\* Math.trunc(n * 0.85); for the sides of the banner dimensions, 150 and 310,
\* the product is no integer, so rounding in floating point cannot change it
overlaySide(n) == (n * OverlayPercent) \div ScaleUnit

\* one call of resize on the image read from source; toFile is <<path>> when
\* the pipeline of that image is written to a file, <<>> when it ends in a buffer
SharpResize(source, w, h, fit, toFile) ==
    [tool |-> "sharp", arg |-> fit, exit |-> 0, file |-> source,
     w |-> w, h |-> h, toFile |-> toFile]

\* the calls of resize of the k-th pass, lines 424-448
passResizes(id, k) ==
    LET dimensions == iconDimensions(k)
    IN  IF bannerPolicy(dimensions)
        THEN << SharpResize(config["wallpaperIcon"], dimensions.w, dimensions.h,
                            "cover", <<pathOnDiskWithScale(id, k)>>),
                SharpResize(config["appIcon"], overlaySide(dimensions.w),
                            overlaySide(dimensions.h), "inside", <<>>) >>
        ELSE << SharpResize(config["appIcon"], scaledSide(dimensions.w, iconScale(k)),
                            scaledSide(dimensions.h, iconScale(k)), "contain",
                            <<pathOnDiskWithScale(id, k)>>) >>

RECURSIVE resizesOfPasses(_, _, _)
\* the calls of resize of the passes lo..hi, in order
resizesOfPasses(id, lo, hi) ==
    IF lo > hi THEN <<>>
    ELSE IF lo = hi THEN passResizes(id, lo)
    ELSE resizesOfPasses(id, lo, (lo + hi) \div 2)
             \o resizesOfPasses(id, ((lo + hi) \div 2) + 1, hi)

\* the image the k-th pass writes: a PNG of the size of the box of the pipeline
\* that is written (fit contain and fit cover both fill the box given)
renderedImage(id, k) ==
    "png " \o ToString(passResizes(id, k)[1].w) \o "x" \o ToString(passResizes(id, k)[1].h)

\* the last pass that writes the file q, by toFile or by copyFile
lastWriter(id, q) ==
    LET writes(k) == \/ pathOnDiskWithScale(id, k) = q
                     \/ iconScale(k) = 100 /\ pathOnDiskWithoutScale(id, k) = q
    IN  CHOOSE k \in 1..NumIconSpecs :
            writes(k) /\ \A j \in (k + 1)..NumIconSpecs : ~writes(j)

\* the disk when the loops are over
imagesDisk(id, dk) ==
    [q \in (DOMAIN dk) \cup imagesWritten(id) |->
        IF q \in imagesWritten(id) THEN renderedImage(id, lastWriter(id, q)) ELSE dk[q]]

\* await makeAppXImages(appID, scratchPath, this.config); Sharp throws on a
\* source image it cannot read, before anything is rendered
MakeAppXImages ==
    /\ At("images")
    /\ \/ /\ dirs' = ensureDir(assetPath, dirs)
          /\ calls' = calls \o resizesOfPasses(appID, 1, NumIconSpecs)
          /\ disk' = imagesDisk(appID, disk)
          /\ imageAssetMapping' = imagesMapping(appID)
          /\ GoesOn("publisher")
       \/ /\ dirs' = ensureDir(assetPath, dirs)
          /\ Rejects("Sharp: unsupported image format")
          /\ UNCHANGED <<disk, calls, imageAssetMapping>>
    /\ UNCHANGED <<inputVars, proc, env, installMapping, appManifestMapping,
                   priFileMapping, contentTypeFileMapping, manifestMapping,
                   writeVars, metaVars>>

----------------------------------------------------------------------------
(* Publisher Resolver: make, lines 839-845, and getPublisher, lines 531-556 *)

\* Object.values(installMapping).filter((f) => f.toLowerCase().endsWith(".exe"))
exes(mapping) == SelectSeq([i \in 1..Len(mapping) |-> mapping[i].value], endsWithExe)

\* publisherConfigured of a make that always asks getPublisher
publisherIgnored == FALSE

\* if (this.config.publisher)
publisherConfigured == "publisher" \in DOMAIN config /\ Truthy(config["publisher"])

\* [ \t]
IsBlank(tok) == tok \in {" ", "\t"}

\* . in a regular expression without the s flag: anything but a line terminator
IsDot(tok) == tok \notin {CRLF, LF}

\* the number of tokens from position i on that [ \t]+ (blanks) or .+ (not
\* blanks) can take: up to the first token the class does not match
RunLength(out, i, blanks) ==
    LET stops == { j \in i..Len(out) :
                     ~(IF blanks THEN IsBlank(out[j]) ELSE IsDot(out[j])) }
    IN  IF stops = {} THEN Len(out) + 1 - i
        ELSE (CHOOSE j \in stops : \A k \in stops : j <= k) - i

\* the text the group publisher captures when
\* /\r\n[ \t]+Publisher:[ \t]+(?<publisher>.+?)\r\n/ matches from position i
\* of the output, a sequence of tokens; <<>> when it does not match there.
\* When nothing but blanks follows Publisher:, the last blank is given back to
\* the group.
publisherAt(out, i) ==
    LET n1   == RunLength(out, i + 1, TRUE)
        word == i + 1 + n1
        n2   == RunLength(out, word + 1, TRUE)
        from == word + 1 + n2
        n3   == RunLength(out, from, FALSE)
        to   == from + n3
    IN  IF /\ out[i] = CRLF
           /\ n1 >= 1
           /\ word <= Len(out) /\ out[word] = "Publisher:"
           /\ n2 >= 1
           /\ to <= Len(out) /\ out[to] = CRLF
        THEN IF n3 >= 1 THEN SubSeq(out, from, to - 1)
             ELSE IF n2 >= 2 THEN <<out[from - 1]>>
             ELSE <<>>
        ELSE <<>>

\* stdout.match(publisherRE)?.groups?.publisher: the leftmost match, or ""
\* for undefined
matchPublisher(out) ==
    LET hits == { i \in 1..Len(out) : publisherAt(out, i) # <<>> }
    IN  IF hits = {} THEN ""
        ELSE Join(publisherAt(out, CHOOSE i \in hits : \A k \in hits : i <= k))

\* what sigcheck may print, as tokens: the report of a signed file, of an
\* unsigned file, and reports the pattern does not match
SigcheckOutputs ==
    { << "Sigcheck", CRLF, "\t", "Verified:", "\t", "Signed", CRLF,
         "\t", "Publisher:", "\t", "Contoso", " ", "Ltd", CRLF, "\t", "Company:", CRLF >>,
      << "Sigcheck", CRLF, "\t", "Verified:", "\t", "Unsigned", CRLF,
         "\t", "Publisher:", "\t", CRLF >>,
      << "Sigcheck", CRLF, "\t", "Verified:", "\t", "Unsigned", CRLF >>,
      << "\t", "Publisher:", "\t", "Contoso", CRLF >>,
      << "Sigcheck", LF, "\t", "Publisher:", "\t", "Contoso", LF >>,
      << "Sigcheck", CRLF, "Publisher:", "\t", "Contoso", CRLF >>,
      << >> }

\* one run of sigcheck on a file: its exit code and what it printed
SigcheckCall(file, code, out) ==
    [tool |-> "sigcheck", arg |-> "-accepteula", exit |-> code, file |-> file,
     stdout |-> out]

\* make, lines 839-845, with getPublisher, lines 531-556
ResolvePublisher ==
    /\ At("publisher")
    /\ IF publisherConfigured
       THEN /\ publisher' = config["publisher"]
            /\ GoesOn("manifest")
            /\ UNCHANGED calls
       ELSE IF Len(exes(installMapping)) > 0
       THEN \E code \in ExitCodes, stdout \in SigcheckOutputs :
              /\ calls' = Append(calls, SigcheckCall(exes(installMapping)[1], code, stdout))
              /\ IF runRejects(code, TRUE)
                 THEN /\ Rejects("Running sigcheck returned nonzero")
                      /\ UNCHANGED publisher
                 ELSE IF Truthy(matchPublisher(stdout))
                 THEN /\ publisher' = matchPublisher(stdout)
                      /\ GoesOn("manifest")
                 ELSE /\ Rejects("Could not determine publisher: not signed")
                      /\ UNCHANGED publisher
       ELSE /\ Rejects("Could not determine publisher: nothing signed")
            /\ UNCHANGED <<publisher, calls>>
    /\ UNCHANGED <<inputVars, proc, env, disk, dirs, mappingVars, writeVars, executable,
                   manifestConfig, appInstallerPath>>

----------------------------------------------------------------------------
(* Manifest Synthesizer and Installer-Descriptor Generator *)

\* makeManifestConfiguration, lines 658-680; an absent optional field is "",
\* absent protocols the empty list (the document is the same for both)
makeManifestConfiguration(id, version, exe, pub) ==
    [ appID |-> id,
      appName |-> appNameString,
      appDescription |-> IF "appDescription" \in DOMAIN config
                         THEN config["appDescription"] ELSE appNameString,
      executable |-> exe,
      architecture |-> options.targetArch,
      version |-> normalizeVersion(version),
      publisher |-> pub,
      protocols |-> IF "protocols" \in DOMAIN config THEN config["protocols"] ELSE <<>>,
      baseDownloadURL |-> IF "baseDownloadURL" \in DOMAIN config
                          THEN config["baseDownloadURL"] ELSE "" ]

\* protocolExtensions of a synthesizer that registers no protocol
noProtocolExtensions(protocols) == <<>>

\* the loop of lines 588-597: one uap3:Extension per protocol, in order
protocolExtensions(protocols) ==
    [i \in 1..Len(protocols) |->
        [Category |-> "windows.protocol", Name |-> protocols[i],
         Parameters |-> "\"%1\"", DisplayName |-> protocols[i]]]

\* let extensions, lines 569-586: the startup task and the execution alias
fixedExtensions(metadata) ==
    << [Category |-> "windows.startupTask",
        Executable |-> pathString(metadata.executable[1]),
        TaskId |-> "SlackStartup", DisplayName |-> metadata.appName],
       [Category |-> "windows.appExecutionAlias",
        Executable |-> pathString(metadata.executable[1]),
        Alias |-> basename(metadata.executable[1])] >>

\* makeAppManifestXML, lines 558-656: the document, element by element
makeAppManifestXML(metadata) ==
    [ Identity |->
        [Name |-> metadata.publisher,
         Publisher |-> IF startsWith(metadata.publisher, "CN=")
                       THEN metadata.publisher ELSE "CN=" \o metadata.publisher,
         Version |-> metadata.version,
         ProcessorArchitecture |-> metadata.architecture],
      Properties |->
        [DisplayName |-> metadata.appName,
         PublisherDisplayName |-> metadata.appName,
         Description |-> metadata.appDescription,
         Logo |-> "assets\\StoreLogo.png"],
      Applications |->
        << [Id |-> metadata.appID,
            Executable |-> pathString(metadata.executable[1]),
            VisualElements |->
                [DisplayName |-> "Notion",
                 Description |-> "Notion",
                 Square150x150Logo |-> "assets\\" \o metadata.appID \o "-150x150Logo.png",
                 Square44x44Logo |-> "assets\\" \o metadata.appID \o "-44x44Logo.png",
                 Wide310x150Logo |-> "assets\\" \o metadata.appID \o "-310x150Logo.png",
                 Square310x310Logo |-> "assets\\" \o metadata.appID \o "-310x310Logo.png",
                 Square71x71Logo |-> "assets\\" \o metadata.appID \o "-71x71Logo.png"],
            Extensions |->
                fixedExtensions(metadata) \o protocolExtensions(metadata.protocols)] >>,
      Extensions |->
        << [Category |-> "windows.firewallRules",
            Executable |-> pathString(metadata.executable[1])] >> ]

\* await makeAppManifest(scratchPath, manifestConfig), lines 682-693: the
\* write of the document is started and not awaited
MakeAppManifest ==
    /\ At("manifest")
    /\ manifestConfig' =
           makeManifestConfiguration(appID, options.version, executable, publisher)
    /\ \/ /\ dirs' = ensureDir(scratchPath, dirs)
          /\ manifestXML' = makeAppManifestXML(manifestConfig')
          /\ manifestWrite' = "pending"
          /\ appManifestMapping' = << [key |-> manifestKey, value |-> manifestFilePath] >>
          /\ GoesOn("installer")
       \/ /\ Rejects("fs.ensureDir failed")
          /\ UNCHANGED <<dirs, manifestXML, manifestWrite, appManifestMapping>>
    /\ UNCHANGED <<inputVars, proc, env, disk, calls, installMapping, imageAssetMapping,
                   priFileMapping, contentTypeFileMapping, manifestMapping,
                   mappingWrite, executable, publisher, appInstallerPath>>

\* the manifest write started by makeAppManifest settles, at any later time
ManifestWriteSettles ==
    /\ manifestWrite = "pending"
    /\ \/ /\ manifestWrite' = "done"
          /\ disk' = writeFile(manifestFilePath, "manifest", disk)
       \/ /\ manifestWrite' = "failed"
          /\ UNCHANGED disk
    /\ UNCHANGED <<inputVars, proc, env, dirs, pc, result, error, artifacts, calls,
                   mappingVars, manifestXML, mappingWrite, metaVars>>

\* replace of a generator that removes one trailing slash only
replaceOneTrailingSlash(url) ==
    IF Len(url) > 0 /\ SubSeq(url, Len(url), Len(url)) = "/"
    THEN SubSeq(url, 1, Len(url) - 1) ELSE url

RECURSIVE replaceTrailingSlashes(_)
\* baseDownloadURL.replace(/\/+$/, ""): the run of slashes at the end is removed
replaceTrailingSlashes(url) ==
    IF Len(url) > 0 /\ SubSeq(url, Len(url), Len(url)) = "/"
    THEN replaceTrailingSlashes(SubSeq(url, 1, Len(url) - 1)) ELSE url

\* const MSIXURL, lines 702-705
MSIXURL(metadata) ==
    replaceTrailingSlashes(metadata.baseDownloadURL) \o "/" \o metadata.appName
        \o "-" \o metadata.architecture \o "-" \o metadata.version \o ".msix"

\* makeAppInstallerXML, lines 695-731: the document, element by element
makeAppInstallerXML(metadata) ==
    [ Uri |-> "http://mywebservice.azurewebsites.net/appset.appinstaller",
      MainBundle |->
        [Name |-> metadata.appName,
         Publisher |-> IF startsWith(metadata.publisher, "CN=")
                       THEN metadata.publisher ELSE "CN=" \o metadata.publisher,
         Version |-> metadata.version,
         Uri |-> MSIXURL(metadata)],
      UpdateSettings |-> [OnLaunch |-> [HoursBetweenUpdateChecks |-> "12"]],
      UpdateUris |-> << MSIXURL(metadata) >>,
      RepairUris |-> << MSIXURL(metadata) >> ]

\* await makeAppInstaller(outPath, manifestConfig), lines 733-748
MakeAppInstaller ==
    /\ At("installer")
    /\ \/ /\ dirs' = ensureDir(outPath, dirs)
          /\ IF Truthy(manifestConfig.baseDownloadURL)
             THEN /\ disk' = writeFile(installerFilePath,
                                       makeAppInstallerXML(manifestConfig), disk)
                  /\ appInstallerPath' = <<installerFilePath>>
             ELSE UNCHANGED <<disk, appInstallerPath>>
          /\ GoesOn("pri_config")
       \/ /\ Truthy(manifestConfig.baseDownloadURL)
          /\ Rejects("fs.writeFile failed")
          /\ UNCHANGED <<disk, dirs, appInstallerPath>>
    /\ UNCHANGED <<inputVars, proc, env, calls, mappingVars, writeVars, executable,
                   publisher, manifestConfig>>

----------------------------------------------------------------------------
(* Resource Index Generator: makePRI, lines 461-499 *)

\* await run(makePRIPath, ["createconfig", ...])
MakePRIConfig ==
    /\ At("pri_config")
    /\ \E code \in ExitCodes :
         /\ calls' = Append(calls, RunCall("makepri", "createconfig", code))
         /\ IF runRejects(code, FALSE)
            THEN /\ Rejects("Running makepri returned nonzero")
                 /\ UNCHANGED disk
            ELSE /\ disk' = IF code = 0
                            THEN writeFile(priConfigPath, "priconfig", disk) ELSE disk
                 /\ GoesOn("pri_new")
    /\ UNCHANGED <<inputVars, proc, env, dirs, mappingVars, writeVars, metaVars>>

\* glob(path.join(outPath, "*.pri")): the files of the directory itself
globPri(d, dk) == { p \in DOMAIN dk : p.dir = d /\ p.ext = PRI }

\* Object.fromEntries(priArray.map((fullPath) => [path.basename(fullPath), fullPath]))
priMapping(found) ==
    [i \in 1..Len(found) |->
        [key |-> joinFile(<<>>, found[i].stem, found[i].ext), value |-> found[i]]]

\* await run(makePRIPath, ["new", ...]), then the glob
MakePRINew ==
    /\ At("pri_new")
    /\ \E code \in ExitCodes :
         /\ calls' = Append(calls, RunCall("makepri", "new", code))
         /\ IF runRejects(code, FALSE)
            THEN /\ Rejects("Running makepri returned nonzero")
                 /\ UNCHANGED <<disk, priFileMapping>>
            ELSE /\ disk' = IF code = 0
                            THEN writeFile(outPriPath, "pri", disk) ELSE disk
                 /\ \E found \in Orders(globPri(scratchPath, disk')) :
                        priFileMapping' = priMapping(found)
                 /\ GoesOn("content_type")
    /\ UNCHANGED <<inputVars, proc, env, dirs, installMapping, imageAssetMapping,
                   appManifestMapping, contentTypeFileMapping, manifestMapping,
                   writeVars, metaVars>>

----------------------------------------------------------------------------
(* Content-Type Descriptor Writer: writeContentTypeXML, lines 501-529 *)

WriteContentTypeXML ==
    /\ At("content_type")
    /\ \/ /\ disk' = writeFile(contentTypePath, "content-types", disk)
          /\ contentTypeFileMapping' =
                 << [key |-> contentTypeKey, value |-> contentTypePath] >>
          /\ GoesOn("serialize")
       \/ /\ Rejects("fs.writeFile failed")
          /\ UNCHANGED <<disk, contentTypeFileMapping>>
    /\ UNCHANGED <<inputVars, proc, env, dirs, calls, installMapping, imageAssetMapping,
                   appManifestMapping, priFileMapping, manifestMapping,
                   writeVars, metaVars>>

----------------------------------------------------------------------------
(* File-Mapping Serializer: make, lines 869-880, and writeMappingFile *)

\* Object.assign({}, appManifestMapping, installMapping, imageAssetMapping,
\*               priFileMapping, contentTypeFileMapping)
mergeMappings(manifest, install, images, pri, contentType) ==
    assign(assign(assign(assign(assign(<<>>, manifest), install), images), pri),
           contentType)

\* the mapping make is about to merge and serialize
mergedNow ==
    mergeMappings(appManifestMapping, installMapping, imageAssetMapping,
                  priFileMapping, contentTypeFileMapping)

\* `"${onDisk}" "${inManifest}"`; paths on disk are written from makeDir on
mappingLine(inManifest, onDisk) ==
    "\"" \o pathString(onDisk) \o "\" \"" \o pathString(inManifest) \o "\""

\* contentLines of a serializer that writes the package path first
contentLinesKeyFirst(fileMapping) ==
    <<"[Files]">> \o
        [i \in 1..Len(fileMapping) |->
            mappingLine(fileMapping[i].value, fileMapping[i].key)]

\* contentLines, lines 755-759: the header, then one line per entry of
\* Object.entries(fileMapping)
contentLines(fileMapping) ==
    <<"[Files]">> \o
        [i \in 1..Len(fileMapping) |->
            mappingLine(fileMapping[i].key, fileMapping[i].value)]

RECURSIVE joinLines(_, _, _, _)
\* lines.join(sep) of the lines lo..hi
joinLines(lines, lo, hi, sep) ==
    IF lo > hi THEN ""
    ELSE IF lo = hi THEN lines[lo]
    ELSE joinLines(lines, lo, (lo + hi) \div 2, sep) \o sep
             \o joinLines(lines, ((lo + hi) \div 2) + 1, hi, sep)

\* contentLines.join("\r\n"), line 762
mappingFileContent(fileMapping) ==
    joinLines(contentLines(fileMapping), 1, Len(contentLines(fileMapping)), CRLF)

\* writeMappingFile(manifestMapping, fileMappingFilenameOnDisk): the lines are
\* built at the call, the write of the file is started and not awaited
SerializeMapping ==
    /\ At("serialize")
    /\ manifestMapping' = mergedNow
    /\ mappingWrite' = "pending"
    /\ GoesOn("pack")
    /\ UNCHANGED <<inputVars, proc, env, disk, dirs, calls, installMapping,
                   imageAssetMapping, appManifestMapping, priFileMapping,
                   contentTypeFileMapping, manifestXML, manifestWrite, metaVars>>

\* the mapping-file write started by writeMappingFile settles, at any later time
MappingWriteSettles ==
    /\ mappingWrite = "pending"
    /\ \/ /\ mappingWrite' = "done"
          /\ disk' = writeFile(fileMappingFilenameOnDisk,
                                mappingFileContent(manifestMapping), disk)
       \/ /\ mappingWrite' = "failed"
          /\ UNCHANGED disk
    /\ UNCHANGED <<inputVars, proc, env, dirs, pc, result, error, artifacts, calls,
                   mappingVars, manifestXML, manifestWrite, metaVars>>

----------------------------------------------------------------------------
(* Packager Invoker: makeMSIX, lines 765-785 *)

\* the try block: an existing artifact of the same name is unlinked
unlinkExisting(p, dk) == [q \in (DOMAIN dk) \ {p} |-> dk[q]]

\* await run(makeAppXPath, ["pack", "/d", scratchPath, "/p", outMSIX]); the
\* tool packs a directory only if it finds AppxManifest.xml in it
Pack ==
    /\ At("pack")
    /\ \E code \in ExitCodes :
         /\ code = 0 => manifestFilePath \in DOMAIN disk
         /\ calls' = Append(calls, RunCall("makeappx", "pack", code))
         /\ IF runRejects(code, FALSE)
            THEN /\ Rejects("Running makeappx returned nonzero")
                 /\ disk' = unlinkExisting(outMSIX, disk)
            ELSE /\ disk' = IF code = 0
                            THEN writeFile(outMSIX, "msix", unlinkExisting(outMSIX, disk))
                            ELSE unlinkExisting(outMSIX, disk)
                 /\ GoesOn("codesign_file")
    /\ UNCHANGED <<inputVars, proc, env, dirs, mappingVars, writeVars, metaVars>>

\* await codesign(config, outMSIX)
CodesignFile ==
    /\ At("codesign_file")
    /\ codesign(IF outMSIX \in DOMAIN disk THEN "file" ELSE "missing",
                IF outMSIX \in DOMAIN disk
                THEN writeFile(outMSIX, "msix signed", disk) ELSE disk,
                "copy_latest")
    /\ UNCHANGED <<inputVars, proc, dirs, mappingVars, writeVars, metaVars>>

----------------------------------------------------------------------------
(* Artifact Finalizer: make, lines 888-897 *)

\* artifactList of a finalizer that returns the three values as they are
artifactListUnfiltered(installer) == <<outMSIX, latestMSIXPath, installer>>

\* [outMSIX, latestMSIXPath, appInstallerPath].filter((f) => f !== undefined)
artifactList(installer) == <<outMSIX, latestMSIXPath>> \o installer

\* await fs.copyFile(outMSIX, latestMSIXPath); return [...]
Finalize ==
    /\ pc = "copy_latest"
    /\ result = "running"
    /\ IF outMSIX \in DOMAIN disk
       THEN \/ /\ disk' = writeFile(latestMSIXPath, disk[outMSIX], disk)
               /\ artifacts' = artifactList(appInstallerPath)
               /\ result' = "resolved"
               /\ pc' = "returned"
               /\ UNCHANGED error
            \/ /\ Rejects("fs.copyFile failed")
               /\ UNCHANGED disk
       ELSE /\ Rejects("fs.copyFile failed")
            /\ UNCHANGED disk
    /\ UNCHANGED <<inputVars, proc, env, dirs, calls, mappingVars, writeVars, metaVars>>

----------------------------------------------------------------------------

Next ==
    \/ RemoveScratch
    \/ CopySource
    \/ CodesignDir
    \/ PrepareOutPath
    \/ Inventory
    \/ MakeAppXImages
    \/ ResolvePublisher
    \/ MakeAppManifest
    \/ ManifestWriteSettles
    \/ MakeAppInstaller
    \/ MakePRIConfig
    \/ MakePRINew
    \/ WriteContentTypeXML
    \/ SerializeMapping
    \/ MappingWriteSettles
    \/ Pack
    \/ CodesignFile
    \/ Finalize

Spec == Init /\ [][Next]_vars

----------------------------------------------------------------------------
(* Runs of make over wider sets of one input, the others held fixed *)

DemoName == <<"D","e","m","o">>

\* config.publisher: absent, empty, a distinguished name, a plain name
PublisherConfigs ==
    { ("appIcon" :> "appicon.png") @@ c @@ u :
        c \in {NoFields, "codesign" :> NoFields},
        u \in {NoFields} \cup { "publisher" :> x : x \in {"", "CN=Test", "Contoso"} } }

PublisherSpec ==
    /\ Start({ o \in OptionsSet : o.appName = DemoName }, PublisherConfigs, {NoFields})
    /\ [][Next]_vars

\* options.packageJSON.version: every string of 0, 1 and . up to a length,
\* and the versions 2.1 and 1.2.3.4.5
VersionStrings ==
    UNION { [1..n -> {"0", "1", "."}] : n \in 0..MaxVersionLen }
        \cup { <<"2", ".", "1">>, <<"1", ".", "2", ".", "3", ".", "4", ".", "5">> }

VersionSpec ==
    /\ Start({ [appName |-> DemoName, targetArch |-> "x64", version |-> v,
               dir |-> {joinFile(<<>>, "Demo", EXE)}] : v \in VersionStrings },
            { ("appIcon" :> "appicon.png") @@ ("publisher" :> "CN=Test") },
            {NoFields})
    /\ [][Next]_vars

\* options.appName: names with no, one and several characters outside A-Z,
\* of fewer and of more than ten letters
AppIDNames ==
    { DemoName,
      <<"M","y"," ","A","p","p"," ","2">>,
      <<"a","-","b">>,
      <<"N","o","t","i","o","n","C","a","l","e","n","d","a","r">>,
      <<"4","2">> }

\* config.internalAppID: absent, or an override as a sequence of characters
AppIDConfigs ==
    { ("appIcon" :> "appicon.png") @@ ("publisher" :> "CN=Test") @@ i :
        i \in {NoFields} \cup { "internalAppID" :> x :
                                   x \in { <<"D","E","M","O">>, <<"m","y",".","a","p","p">>,
                                           <<"N","O","T","I","O","N","C","A","L","E","N","D","A","R">> } } }

AppIDSpec ==
    /\ Start({ [appName |-> n, targetArch |-> "x64", version |-> <<"2", ".", "1">>,
               dir |-> {joinFile(<<>>, "Demo", EXE)}] : n \in AppIDNames },
            AppIDConfigs, {NoFields})
    /\ [][Next]_vars

\* config.protocols: absent, empty, one scheme, two schemes
ProtocolLists == { <<>>, <<"demo">>, <<"demo", "web+demo">> }

ManifestConfigs ==
    { ("appIcon" :> "appicon.png") @@ c @@ u @@ r :
        c \in {NoFields, "codesign" :> NoFields},
        u \in { "publisher" :> x : x \in {"CN=Test", "Contoso"} },
        r \in {NoFields} \cup { "protocols" :> l : l \in ProtocolLists } }

ManifestSpec ==
    /\ Start({ o \in OptionsSet : o.appName = DemoName }, ManifestConfigs, {NoFields})
    /\ [][Next]_vars

\* config.wallpaperIcon: absent, empty or given
IconConfigs ==
    { ("appIcon" :> "appicon.png") @@ ("publisher" :> "CN=Test") @@ w :
        w \in {NoFields} \cup { "wallpaperIcon" :> x : x \in {"", "wallpaper.png"} } }

IconSpec ==
    /\ Start({ o \in OptionsSet : joinFile(<<>>, "Demo", EXE) \in o.dir }, IconConfigs,
            {NoFields})
    /\ [][Next]_vars

\* config.baseDownloadURL: absent, empty, and a URL ending in no, one and
\* two slashes
InstallerConfigs ==
    { ("appIcon" :> "appicon.png") @@ ("publisher" :> "CN=Test") @@ b :
        b \in {NoFields} \cup
              { "baseDownloadURL" :> x :
                  x \in { "", "https://example.com/apps", "https://example.com/apps/",
                          "https://example.com/apps//" } } }

\* application names, architectures and versions, with the tree of one file
InstallerOptions ==
    { [appName |-> n, targetArch |-> a, version |-> v,
       dir |-> {joinFile(<<>>, "Demo", EXE)}] :
        n \in AppNames \cup { <<"M","y"," ","A","p","p"," ","2">> },
        a \in {"x64", "arm64"},
        v \in { <<"2", ".", "1">>, <<"1", ".", "2", ".", "3", ".", "4", ".", "5">>, <<>> } }

InstallerSpec ==
    /\ Start(InstallerOptions, InstallerConfigs, {NoFields})
    /\ [][Next]_vars

\* isSupportedOnCurrentPlatform(), lines 791-793; make does not call it
isSupportedOnCurrentPlatform == platform = "win32"

\* make called on the target platform and on two others
PlatformSpec ==
    /\ StartOn({"win32", "linux", "darwin"},
               { o \in OptionsSet : o.appName = DemoName },
               { ("appIcon" :> "appicon.png") @@ ("publisher" :> "CN=Test") },
               {NoFields})
    /\ [][Next]_vars

----------------------------------------------------------------------------
(* getPublisher called on its own, lines 531-556 *)

\* install mappings getPublisher may be given: those of the walks of the
\* files of a staged tree, trees without executable included
GetPublisherMappings ==
    UNION { { inventoryMapping(walked, <<"msix", "build">>) :
                walked \in Orders({ stagedPath(<<"msix", "build", "Demo">>, rel) : rel \in t }) } :
            t \in Trees }

\* make is about to resolve the publisher, none being configured
GetPublisherInit ==
    /\ options \in { o \in OptionsSet : o.appName = DemoName /\ o.dir = {} }
    /\ config \in { "appIcon" :> "appicon.png",
                     ("appIcon" :> "appicon.png") @@ ("publisher" :> "") }
    /\ env = NoFields
    /\ env0 = env
    /\ platform = "win32"
    /\ proc = NoProcess
    /\ installMapping \in GetPublisherMappings
    /\ disk = [p \in Values(installMapping) |-> "source"]
    /\ dirs = DirsOf(disk)
    /\ pc = "publisher"
    /\ result = "running"
    /\ error = ""
    /\ artifacts = <<>>
    /\ calls = <<>>
    /\ executable = <<>>
    /\ publisher = ""
    /\ imageAssetMapping = <<>>
    /\ appManifestMapping = <<>>
    /\ priFileMapping = <<>>
    /\ contentTypeFileMapping = <<>>
    /\ manifestMapping = <<>>
    /\ manifestConfig = <<>>
    /\ appInstallerPath = <<>>
    /\ manifestXML = <<>>
    /\ manifestWrite = "none"
    /\ mappingWrite = "none"

GetPublisherSpec == GetPublisherInit /\ [][ResolvePublisher]_vars

----------------------------------------------------------------------------
(* writeMappingFile called on mappings of every size, lines 750-763 *)

\* make is about to merge and serialize: the mappings of the producers are
\* drawn one by one, the empty mapping included, so that the mapping handed to
\* writeMappingFile has no, one or many entries
MappingFileSpec ==
    /\ options \in { o \in OptionsSet : o.appName = DemoName /\ o.dir = {} }
    /\ config = ("appIcon" :> "appicon.png") @@ ("publisher" :> "CN=Test")
    /\ env = NoFields
    /\ env0 = env
    /\ platform = "win32"
    /\ proc = NoProcess
    /\ appManifestMapping \in
           { <<>>, << [key |-> manifestKey, value |-> manifestFilePath] >> }
    /\ installMapping \in GetPublisherMappings
    /\ imageAssetMapping \in { <<>>, imagesMapping(appID) }
    /\ priFileMapping \in { <<>>, priMapping(<<outPriPath>>) }
    /\ contentTypeFileMapping \in
           { <<>>, << [key |-> contentTypeKey, value |-> contentTypePath] >> }
    /\ disk = [p \in Values(mergedNow) |-> "source"]
    /\ dirs = DirsOf(disk) \cup Ancestors(outPath)
    /\ pc = "serialize"
    /\ result = "running"
    /\ error = ""
    /\ artifacts = <<>>
    /\ calls = <<>>
    /\ executable = <<>>
    /\ publisher = "CN=Test"
    /\ manifestMapping = <<>>
    /\ manifestConfig = <<>>
    /\ appInstallerPath = <<>>
    /\ manifestXML = <<>>
    /\ manifestWrite = "none"
    /\ mappingWrite = "none"
    /\ [][SerializeMapping \/ MappingWriteSettles]_vars

----------------------------------------------------------------------------
(* run followed event by event, lines 227-287: the data events of the *)
(* child's stdout and its exit event; stderr is handled like stdout and *)
(* left out                                                            *)

\* every variable of make
makeVars ==
    <<options, config, env, env0, disk, dirs, pc, result, error, artifacts, calls,
      executable, publisher, manifestConfig, installMapping, imageAssetMapping,
      appManifestMapping, priFileMapping, contentTypeFileMapping, manifestMapping,
      appInstallerPath, manifestXML, manifestWrite, mappingWrite, platform>>

RECURSIVE trimEnd(_)
\* line.trimEnd(): the white space at the end is removed
trimEnd(cs) ==
    IF cs # <<>> /\ cs[Len(cs)] \in {" ", "\t", "\r", "\n"}
    THEN trimEnd(SubSeq(cs, 1, Len(cs) - 1)) ELSE cs

\* the lines the data handler logs, lines 242-246: all pieces of
\* runningStdout.split("\n") but the last, each trimmed
stdoutLogged(running) ==
    [i \in 1..(Len(split(running, "\n")) - 1) |-> trimEnd(split(running, "\n")[i])]

\* runningStdout = logLines[0], lines 247-249: the last piece
stdoutKept(running) == split(running, "\n")[Len(split(running, "\n"))]

\* proc.stdout.on("data", ...), lines 238-251: the next chunk, of any length,
\* of what the child has written; the listener stays after the exit event
StdoutData ==
    /\ proc.pending # <<>>
    /\ \E n \in 1..Len(proc.pending) :
         LET data    == SubSeq(proc.pending, 1, n)
             running == proc.runningStdout \o data
             newline == \E i \in 1..Len(running) : running[i] = "\n"
         IN  proc' = [proc EXCEPT
                 !.pending = SubSeq(proc.pending, n + 1, Len(proc.pending)),
                 !.collectedStdoutLogForReturn = @ \o data,
                 !.log = IF newline THEN @ \o stdoutLogged(running) ELSE @,
                 !.runningStdout = IF newline THEN stdoutKept(running) ELSE running]
    /\ UNCHANGED makeVars

\* proc.on("exit", ...), lines 268-283: the exit event comes once, at any
\* time, the pipes of the child being closed or not; what is left of the
\* output is logged and the promise settles
ProcExit ==
    /\ ~proc.exited
    /\ \E code \in ExitCodes :
         proc' = [proc EXCEPT
             !.exited = TRUE,
             !.log = @ \o [i \in 1..Len(split(proc.runningStdout, "\n")) |->
                              trimEnd(split(proc.runningStdout, "\n")[i])],
             !.settled = IF runRejects(code, proc.neverFail)
                         THEN "rejected" ELSE "resolved",
             !.value = IF runRejects(code, proc.neverFail)
                       THEN <<>> ELSE proc.collectedStdoutLogForReturn]
    /\ UNCHANGED makeVars

\* getPublisher has called run: the child has been spawned and writes an
\* output of up to MaxOutputLen characters
RunSpec ==
    /\ proc \in { [neverFail |-> nf, written |-> out, pending |-> out,
                    runningStdout |-> <<>>, collectedStdoutLogForReturn |-> <<>>,
                    log |-> <<>>, exited |-> FALSE, settled |-> "pending",
                    value |-> <<>>] :
                      nf \in BOOLEAN,
                      out \in UNION { [1..n -> {"a", " ", "\n"}] : n \in 0..MaxOutputLen } }
    /\ options \in { o \in OptionsSet : o.appName = DemoName /\ o.dir = {} }
    /\ config = ("appIcon" :> "appicon.png")
    /\ env = NoFields
    /\ env0 = env
    /\ platform = "win32"
    /\ installMapping =
           << [key |-> joinFile(<<"Demo">>, "Demo", EXE),
               value |-> joinFile(programFilesPath, "Demo", EXE)] >>
    /\ disk = [p \in Values(installMapping) |-> "source"]
    /\ dirs = DirsOf(disk)
    /\ pc = "publisher"
    /\ result = "running"
    /\ error = ""
    /\ artifacts = <<>>
    /\ calls = <<>>
    /\ executable = <<>>
    /\ publisher = ""
    /\ imageAssetMapping = <<>>
    /\ appManifestMapping = <<>>
    /\ priFileMapping = <<>>
    /\ contentTypeFileMapping = <<>>
    /\ manifestMapping = <<>>
    /\ manifestConfig = <<>>
    /\ appInstallerPath = <<>>
    /\ manifestXML = <<>>
    /\ manifestWrite = "none"
    /\ mappingWrite = "none"
    /\ [][StdoutData \/ ProcExit]_vars

----------------------------------------------------------------------------
(* Claims C1-C10 *)

RangeOf(seq) == { seq[i] : i \in 1..Len(seq) }

\* the source tree, and so its staged copy, holds no file ending in .exe
NoExecutable == ~(\E f \in options.dir : endsWithExe(f))

StagesUpToInventory ==
    {"remove_scratch", "copy_source", "codesign_dir", "prepare_out", "inventory"}

\* C1, as stated: when the tree holds no .exe file and make has failed with the
\* missing-executable error, no external tool at all has been invoked before
\* that failure, the signing tool included, whether or not a credential is
\* configured.
C1_NoToolBeforeMissingExecutable ==
    (NoExecutable /\ result = "rejected" /\ error = "No executable file found")
        => calls = <<>>

\* C1, amended: when the tree holds no .exe file, make never gets past
\* inventory and never resolves; once staging and directory signing have
\* succeeded it fails with the missing-executable error; no process has been
\* spawned before that failure, and the signing library has been invoked
\* exactly when a credential is configured: once, in directory mode.
C1_NoProcessBeforeMissingExecutable ==
    NoExecutable =>
        /\ pc \in StagesUpToInventory
        /\ result # "resolved"
        /\ (pc = "inventory" /\ result = "rejected") => error = "No executable file found"
        /\ \A c \in RangeOf(calls) : c.tool = "sign" /\ c.arg = "appDirectory"
        /\ error = "No executable file found" =>
               calls = IF "codesign" \in DOMAIN config
                       THEN << SignCall("appDirectory", TRUE) >> ELSE <<>>

\* C1 witness: a tree without executable, a credential configured, and make
\* has failed at inventory after the directory was signed
C1_Witness ==
    /\ NoExecutable
    /\ options.dir # {}
    /\ "codesign" \in DOMAIN config
    /\ result = "rejected"
    /\ error = "No executable file found"
    /\ calls # <<>>

\* C2: once make has merged the five mappings, no package-relative key was
\* claimed by two of them: every entry of every stage is an entry of its own
\* in the merged mapping (a collision would have made make fail instead).
C2_MergedKeysUnique ==
    mappingWrite # "none" =>
        Len(manifestMapping) =
            Len(appManifestMapping) + Len(installMapping) + Len(imageAssetMapping)
                + Len(priFileMapping) + Len(contentTypeFileMapping)

\* C3: at the moment writeMappingFile is called with the merged mapping, every
\* source path of the mapping exists on disk, AppxManifest.xml included.
C3_SourcesExistAtSerialization ==
    At("serialize") => Values(mergedNow) \subseteq DOMAIN disk

\* C4: once the packaging tool has been spawned, and once make has resolved,
\* the manifest document and the file-mapping file have been written.
C4_WritesCompleteBeforePack ==
    ((\E c \in RangeOf(calls) : c.tool = "makeappx") \/ result = "resolved")
        => (manifestWrite = "done" /\ mappingWrite = "done")

\* C5: when the write of the manifest document or of the file-mapping file has
\* failed, make does not resolve with an artifact list.
C5_WriteFailureFailsMake ==
    (manifestWrite = "failed" \/ mappingWrite = "failed")
        => (result # "resolved" /\ artifacts = <<>>)

\* C6: a nonzero exit of the packaging tool makes make fail: it is the last
\* tool invoked (no file-mode signing follows), no latest alias exists and no
\* artifact list is returned.
C6_PackFailureIsFatal ==
    \A i \in 1..Len(calls) :
        (calls[i].tool = "makeappx" /\ calls[i].exit # 0) =>
            /\ result = "rejected"
            /\ error = "Running makeappx returned nonzero"
            /\ i = Len(calls)
            /\ latestMSIXPath \notin DOMAIN disk
            /\ artifacts = <<>>

\* C6 witness: the packaging tool has exited with a nonzero code
C6_Witness ==
    \E c \in RangeOf(calls) : c.tool = "makeappx" /\ c.exit # 0

\* C7: a failed sign call, in directory mode or in file mode, makes make fail
\* with that error: it is the last tool invoked, no artifact list is returned
\* and after a file-mode failure no latest alias exists; and a run that
\* resolves with a credential configured has signed the staged tree and the
\* artifact successfully.
C7_SignFailureIsFatal ==
    /\ \A i \in 1..Len(calls) :
           (calls[i].tool = "sign" /\ calls[i].exit # 0) =>
               /\ result = "rejected"
               /\ error = "sign failed"
               /\ i = Len(calls)
               /\ artifacts = <<>>
               /\ calls[i].arg = "files" => latestMSIXPath \notin DOMAIN disk
    /\ (result = "resolved" /\ "codesign" \in DOMAIN config) =>
           /\ SignCall("appDirectory", TRUE) \in RangeOf(calls)
           /\ SignCall("files", TRUE) \in RangeOf(calls)
           /\ disk[outMSIX] = "msix signed"

\* C7 witness: file-mode signing of the packed artifact has failed
C7_Witness ==
    /\ outMSIX \in DOMAIN disk
    /\ SignCall("files", FALSE) \in RangeOf(calls)
    /\ SignCall("appDirectory", TRUE) \in RangeOf(calls)

\* C8: without config.codesign the signing library is never invoked and
\* CSC_LINK and CSC_KEY_PASSWORD are as they were when make was called.
C8_NoCredentialNoSigning ==
    ("codesign" \notin DOMAIN config) =>
        /\ \A c \in RangeOf(calls) : c.tool # "sign"
        /\ env = env0

\* C8 witness: a run without credential has resolved, with the variables set
\* before the run
C8_Witness ==
    /\ "codesign" \notin DOMAIN config
    /\ result = "resolved"
    /\ DOMAIN env0 = {"CSC_LINK", "CSC_KEY_PASSWORD"}
    /\ imageAssetMapping # <<>>

EnvNames == {"CSC_LINK", "CSC_KEY_PASSWORD"}

\* the credential field copied into an environment variable
FieldOf(v) == IF v = "CSC_LINK" THEN "certificateFile" ELSE "certificatePassword"

\* C9, as stated: a variable that was set when make was called, to whatever
\* value, is never overwritten.
C9_SetVariableNeverOverwritten ==
    \A v \in DOMAIN env0 : v \in DOMAIN env /\ env[v] = env0[v]

\* C9, amended: a variable set to a non-empty value is never overwritten (one
\* set to the empty string counts as unset); a variable is assigned only when
\* it was unset or empty and the matching credential field is present, only in
\* the step in which a sign call succeeded, and it takes the field's value;
\* once non-empty it keeps its value in every later step.
C9_NonEmptyVariableNeverOverwritten ==
    [][ \A v \in EnvNames :
          /\ v \in DOMAIN env => v \in DOMAIN env'
          /\ (v \in DOMAIN env /\ Truthy(env[v])) => env'[v] = env[v]
          /\ (v \in DOMAIN env' /\ (v \notin DOMAIN env \/ env'[v] # env[v])) =>
                /\ "codesign" \in DOMAIN config
                /\ FieldOf(v) \in DOMAIN config["codesign"]
                /\ env'[v] = config["codesign"][FieldOf(v)]
                /\ Len(calls') = Len(calls) + 1
                /\ calls'[Len(calls')].tool = "sign"
                /\ calls'[Len(calls')].exit = 0 ]_vars

\* C9 witness: both codesign calls have succeeded in a run that began with
\* CSC_LINK empty and CSC_KEY_PASSWORD set, and CSC_LINK was assigned
C9_Witness ==
    /\ result = "resolved"
    /\ SignCall("files", TRUE) \in RangeOf(calls)
    /\ "CSC_LINK" \in DOMAIN env0
    /\ "CSC_KEY_PASSWORD" \in DOMAIN env0
    /\ env # env0
    /\ env["CSC_KEY_PASSWORD"] = env0["CSC_KEY_PASSWORD"]

\* C10: after staging, and until icons are generated, the scratch tree holds
\* exactly the copies of the files of the source tree, whatever an earlier run
\* left behind.
C10_StagedTreeIsSourceTree ==
    pc \in {"codesign_dir", "prepare_out", "inventory", "images"} =>
        /\ FilesUnder(scratchPath, disk)
               = { stagedPath(programFilesPath, rel) : rel \in options.dir }
        /\ \A p \in FilesUnder(scratchPath, disk) : disk[p] = "source"

\* C10 witness: staging has just finished in a makeDir that held the files of
\* an earlier run (its stale file mapping is still in the output directory)
C10_Witness ==
    /\ pc = "codesign_dir"
    /\ options.dir # {}
    /\ fileMappingFilenameOnDisk \in DOMAIN disk
    /\ disk[fileMappingFilenameOnDisk] = "stale"

----------------------------------------------------------------------------
(* Claims C11-C20 *)

\* the await make is at comes after the await of inventory has begun
PastPrepareOut == pc \notin {"remove_scratch", "copy_source", "codesign_dir", "prepare_out"}

\* the copies of the files of the source tree are on the disk
TreeIsStaged ==
    /\ \A rel \in options.dir : stagedPath(programFilesPath, rel) \in DOMAIN disk
    /\ programFilesPath \in dirs

\* the directory-mode sign call has been made first and has succeeded
DirectorySigned == calls # <<>> /\ calls[1] = SignCall("appDirectory", TRUE)

\* C11: with a credential configured, the directory-mode sign call is the
\* first tool invoked; it is made only when the copy of the source tree has
\* finished; inventory begins only after it has succeeded (no mapping and no
\* executable before); and so every call of the signature inspector comes
\* after it.
C11_DirectorySigningBetweenCopyAndInventory ==
    ("codesign" \in DOMAIN config) =>
        /\ (calls # <<>>) =>
               /\ calls[1].tool = "sign"
               /\ calls[1].arg = "appDirectory"
               /\ pc \notin {"remove_scratch", "copy_source"}
               /\ TreeIsStaged
        /\ (PastPrepareOut \/ pc = "prepare_out") => DirectorySigned
        /\ (installMapping # <<>> \/ executable # <<>>) => DirectorySigned
        /\ \A i \in 1..Len(calls) :
               calls[i].tool = "sigcheck" => (i > 1 /\ DirectorySigned)

\* C11 witness: with a credential and no configured publisher, the signature
\* inspector has been run on an executable of a staged tree of two files
C11_Witness ==
    /\ "codesign" \in DOMAIN config
    /\ ~publisherConfigured
    /\ Cardinality(options.dir) = 2
    /\ \E c \in RangeOf(calls) : c.tool = "sigcheck"

\* C12: the primary executable is the first entry of the install mapping, in
\* the order of the walk, whose name ends in .exe whatever its case; the
\* mapping holds every staged file once, so a later match has not replaced it.
C12_FirstExecutableInWalkOrder ==
    (executable # <<>>) =>
        /\ Keys(installMapping)
               = { relativeFileName(p, scratchPath) :
                     p \in { stagedPath(programFilesPath, rel) : rel \in options.dir } }
        /\ Len(installMapping) = Cardinality(options.dir)
        /\ \E i \in 1..Len(installMapping) :
               /\ installMapping[i].key = executable[1]
               /\ Join(toLowerCase(installMapping[i].key.ext)) = "exe"
               /\ \A j \in 1..(i - 1) :
                      Join(toLowerCase(installMapping[j].key.ext)) # "exe"

\* C12 witness: the walk met helper.EXE first and Demo.exe after it, and
\* helper.EXE is the primary executable
C12_Witness ==
    /\ Len(installMapping) = 2
    /\ installMapping[1].key.stem = "helper"
    /\ installMapping[2].key.stem = "Demo"
    /\ executable # <<>>
    /\ executable[1].stem = "helper"

\* C13: when config.publisher is given and not empty, the signature inspector
\* is never run, the publisher make resolves is the configured string, and the
\* manifest metadata carries that string unchanged.
C13_ConfiguredPublisherUnchanged ==
    ("publisher" \in DOMAIN config /\ config["publisher"] # "") =>
        /\ \A c \in RangeOf(calls) : c.tool # "sigcheck"
        /\ (PastPrepareOut /\ pc \notin {"inventory", "images", "publisher"}) =>
               publisher = config["publisher"]
        /\ (manifestConfig # <<>>) => manifestConfig.publisher = config["publisher"]
        /\ error \notin {"Could not determine publisher: not signed",
                           "Could not determine publisher: nothing signed"}

\* C13 witness: a run with the publisher Contoso configured has resolved, its
\* metadata made, in a tree that holds an executable the inspector could have
\* been run on
C13_Witness ==
    /\ "publisher" \in DOMAIN config
    /\ config["publisher"] = "Contoso"
    /\ result = "resolved"
    /\ manifestConfig # <<>>
    /\ manifestConfig.publisher = "Contoso"
    /\ Len(exes(installMapping)) > 0

\* getPublisher has returned or thrown
GetPublisherSettled == pc = "manifest" \/ result = "rejected"

VersionComponents(v) == split(v, ".")

\* the four components the rule asks for: those of the input, then "0"
ExpectedComponents(v) ==
    [i \in 1..4 |-> IF i <= Len(VersionComponents(v))
                    THEN VersionComponents(v)[i] ELSE <<"0">>]

\* the four components with a dot between them
ExpectedVersion(v) ==
    ExpectedComponents(v)[1] \o <<".">> \o ExpectedComponents(v)[2] \o <<".">>
        \o ExpectedComponents(v)[3] \o <<".">> \o ExpectedComponents(v)[4]

\* C15: the version of the manifest metadata is made of exactly four
\* components with a dot between them: the first four components of
\* options.version split on ".", then "0" for every missing one; it holds
\* three dots more than its components hold, none; and the rule applied to
\* it gives it back.
C15_VersionHasFourComponents ==
    (manifestConfig # <<>>) =>
        /\ manifestConfig.version = Join(ExpectedVersion(options.version))
        /\ Len(VersionComponents(ExpectedVersion(options.version))) = 4
        /\ Cardinality({ i \in 1..Len(ExpectedVersion(options.version)) :
                            ExpectedVersion(options.version)[i] = "." }) = 3
        /\ normalizeVersion(ExpectedVersion(options.version)) = manifestConfig.version
        /\ (options.version = <<"1">>) => manifestConfig.version = "1.0.0.0"
        /\ (options.version = <<"0", ".", "0", ".", "1">>) =>
               manifestConfig.version = "0.0.1.0"
        /\ (options.version = <<"1", ".", "2", ".", "3", ".", "4", ".", "5">>) =>
               manifestConfig.version = "1.2.3.4"

\* C15 witness: the metadata of version 1.2.3.4.5 have been made, cut to
\* four components
C15_Witness ==
    /\ options.version = <<"1", ".", "2", ".", "3", ".", "4", ".", "5">>
    /\ manifestConfig # <<>>
    /\ manifestConfig.version = "1.2.3.4"
    /\ result = "resolved"

\* C16: the application id of the manifest metadata, which is also the id
\* the icon files are named from, consists only of the letters A-Z and has at
\* most ten characters, for every application name and every internalAppID.
C16_AppIDUppercaseAlphabeticCapped ==
    (manifestConfig # <<>>) =>
        /\ manifestConfig.appID = Join(appIDChars)
        /\ pathOnDiskWithScale(Join(appIDChars), 1) \in DOMAIN disk
        /\ Len(appIDChars) <= 10
        /\ \A i \in 1..Len(appIDChars) : IndexIn(appIDChars[i], UpperLetters) > 0

\* the run of the scenario: appName Demo, version 2.1, a source tree holding
\* the single file Demo.exe, no wallpaper, protocols ["demo"], publisher CN=Test
DemoScenario ==
    /\ options.appName = DemoName
    /\ options.version = <<"2", ".", "1">>
    /\ options.dir = {joinFile(<<>>, "Demo", EXE)}
    /\ "wallpaperIcon" \notin DOMAIN config
    /\ "protocols" \in DOMAIN config /\ config["protocols"] = <<"demo">>
    /\ "publisher" \in DOMAIN config /\ config["publisher"] = "CN=Test"

\* the protocol extensions of the one application entry of the document
ProtocolExtensionsOf(doc) ==
    SelectSeq(doc.Applications[1].Extensions,
              LAMBDA e : e.Category = "windows.protocol")

\* the schemes configured, none when config.protocols is absent
ConfiguredSchemes == IF "protocols" \in DOMAIN config THEN config["protocols"] ELSE <<>>

\* the document has one application entry and one protocol extension per
\* configured scheme, in the order of the configuration
OneExtensionPerScheme(doc) ==
    /\ Len(doc.Applications) = 1
    /\ Len(ProtocolExtensionsOf(doc)) = Len(ConfiguredSchemes)
    /\ \A i \in 1..Len(ConfiguredSchemes) :
           ProtocolExtensionsOf(doc)[i].Name = ConfiguredSchemes[i]

\* what the scenario's document holds apart from the Executable attribute
DemoDocument(doc) ==
    /\ doc.Identity.Version = "2.1.0.0"
    /\ doc.Applications[1].Id = "DEMO"
    /\ Len(ProtocolExtensionsOf(doc)) = 1
    /\ ProtocolExtensionsOf(doc)[1].Name = "demo"

\* C17, as stated: the document of the scenario has Version 2.1.0.0, one
\* Application entry with Id DEMO and Executable Demo.exe, and one protocol
\* extension, for demo; every document has one protocol extension per scheme.
C17_DemoExecutableIsFileName ==
    (manifestXML # <<>>) =>
        /\ OneExtensionPerScheme(manifestXML)
        /\ DemoScenario =>
               /\ DemoDocument(manifestXML)
               /\ manifestXML.Applications[1].Executable = "Demo.exe"

\* C17, amended: as stated, but the Executable of the Application entry is
\* Demo\Demo.exe, the path of the staged file below the root of the package:
\* the tree is staged in the directory named after the application and the
\* inventory names files from the root above it.
C17_DemoExecutableIsPackagePath ==
    (manifestXML # <<>>) =>
        /\ OneExtensionPerScheme(manifestXML)
        /\ manifestXML.Applications[1].Executable = pathString(executable[1])
        /\ executable[1] \in Keys(installMapping)
        /\ DemoScenario =>
               /\ DemoDocument(manifestXML)
               /\ manifestXML.Applications[1].Executable = "Demo\\Demo.exe"
               /\ [key |-> joinFile(<<"Demo">>, "Demo", EXE),
                   value |-> joinFile(<<"msix", "build", "Demo">>, "Demo", EXE)]
                      \in RangeOf(installMapping)

\* C17 witness: the document of the scenario has been handed to the write
C17_Witness ==
    /\ DemoScenario
    /\ manifestXML # <<>>
    /\ manifestWrite = "done"
    /\ result = "resolved"

\* the six required dimensions and the five required scales, by number
DimensionNumbers == 1..6

ScaleValues == {100, 125, 150, 200, 400}

\* the name an icon of the d-th dimension is given: the base name, and the
\* scale when s is not 0
IconName(d, s) ==
    LET dim  == REQUIRED_APPX_DIMENSIONS[d]
        base == IF d = 6 THEN "StoreLogo"
                ELSE appID \o "-" \o ToString(dim.w) \o "x" \o ToString(dim.h) \o "Logo"
    IN  IF s = 0 THEN base ELSE base \o ".scale-" \o ToString(s)

IconFile(d, s) == joinFile(<<"msix", "build", "assets">>, IconName(d, s), PNG)

IconKey(d, s) == joinFile(<<"assets">>, IconName(d, s), PNG)

\* the calls of resize whose pipeline was written to the file
SharpCallsTo(file) ==
    { i \in 1..Len(calls) : calls[i].tool = "sharp" /\ calls[i].toFile = <<file>> }

\* C18: once makeAppXImages has succeeded, for each of the 6 dimensions and
\* each of the 5 scales one rendering, and only one, has been written, to the
\* file named from the base name and the scale, and registered under its key;
\* for each dimension the alias without scale exists, is registered, and holds
\* what the rendering of scale 100 holds; the mapping has 36 entries, with 36
\* different keys and 36 different files.
C18_OneIconPerDimensionAndScale ==
    (imageAssetMapping # <<>>) =>
        /\ \A d \in DimensionNumbers, s \in ScaleValues :
               /\ IconFile(d, s) \in DOMAIN disk
               /\ Cardinality(SharpCallsTo(IconFile(d, s))) = 1
               /\ [key |-> IconKey(d, s), value |-> IconFile(d, s)]
                      \in RangeOf(imageAssetMapping)
        /\ \A d \in DimensionNumbers :
               /\ IconFile(d, 0) \in DOMAIN disk
               /\ disk[IconFile(d, 0)] = disk[IconFile(d, 100)]
               /\ SharpCallsTo(IconFile(d, 0)) = {}
               /\ [key |-> IconKey(d, 0), value |-> IconFile(d, 0)]
                      \in RangeOf(imageAssetMapping)
        /\ Len(imageAssetMapping) = 36
        /\ Cardinality(Keys(imageAssetMapping)) = 36
        /\ Cardinality(Values(imageAssetMapping)) = 36
        /\ Cardinality({ i \in 1..Len(calls) :
                           calls[i].tool = "sharp" /\ calls[i].toFile # <<>> }) = 30

\* C18 witness: the icons have been generated for the application assets,
\* whose staged tree lies in the directory of the icons, with a wallpaper
C18_Witness ==
    /\ imageAssetMapping # <<>>
    /\ appNameString = "assets"
    /\ "wallpaperIcon" \in DOMAIN config
    /\ config["wallpaperIcon"] # ""
    /\ result = "resolved"

\* n / d rounded to the nearest integer, halves upwards
Round(n, d) == (2 * n + d) \div (2 * d)

\* the policy that applies to a dimension: banner when a wallpaper is
\* configured and a side is at least 300, plain otherwise
IsBanner(dim) ==
    /\ "wallpaperIcon" \in DOMAIN config
    /\ config["wallpaperIcon"] # ""
    /\ (dim.w >= 300 \/ dim.h >= 300)

\* C19: under the plain policy, the resize that renders the icon of a
\* dimension at a scale is given round(width * scale / 100) and
\* round(height * scale / 100).
C19_PlainSizesRounded ==
    (imageAssetMapping # <<>>) =>
        \A d \in DimensionNumbers, s \in ScaleValues :
            ~IsBanner(REQUIRED_APPX_DIMENSIONS[d]) =>
                \A i \in SharpCallsTo(IconFile(d, s)) :
                    /\ calls[i].w = Round(REQUIRED_APPX_DIMENSIONS[d].w * s, 100)
                    /\ calls[i].h = Round(REQUIRED_APPX_DIMENSIONS[d].h * s, 100)

\* the sizes a side of the target box may have at a scale: the product with
\* scale / 100, rounded down or to the nearest integer
BoxSides(n, s) == { (n * s) \div 100, Round(n * s, 100) }

\* 85% of a side, rounded down or up
OverlaySides(n) == { (n * 85) \div 100, ((n * 85) \div 100) + 1 }

\* C20: under the banner policy, at every scale the background is resized to
\* the target box of that scale and the primary icon, laid over it by the next
\* call, to 85% of that box; so the background of a dimension is larger at a
\* larger scale.
C20_BannerSizedToScaledBox ==
    (imageAssetMapping # <<>>) =>
        \A d \in DimensionNumbers, s \in ScaleValues :
            IsBanner(REQUIRED_APPX_DIMENSIONS[d]) =>
                \A i \in SharpCallsTo(IconFile(d, s)) :
                    /\ calls[i].arg = "cover"
                    /\ calls[i].w \in BoxSides(REQUIRED_APPX_DIMENSIONS[d].w, s)
                    /\ calls[i].h \in BoxSides(REQUIRED_APPX_DIMENSIONS[d].h, s)
                    /\ calls[i + 1].arg = "inside"
                    /\ \E bw \in BoxSides(REQUIRED_APPX_DIMENSIONS[d].w, s) :
                           calls[i + 1].w \in OverlaySides(bw)
                    /\ \E bh \in BoxSides(REQUIRED_APPX_DIMENSIONS[d].h, s) :
                           calls[i + 1].h \in OverlaySides(bh)
                    /\ \A t \in ScaleValues :
                           \A j \in SharpCallsTo(IconFile(d, t)) :
                               t > s => calls[j].w > calls[i].w

----------------------------------------------------------------------------
(* Claims C21-C30 *)

\* the asset paths the manifest refers to, each with the sides of its tile
ManifestAssetReferences(doc) ==
    LET ve == doc.Applications[1].VisualElements
    IN  { [path |-> doc.Properties.Logo, w |-> 50, h |-> 50],
          [path |-> ve.Square150x150Logo, w |-> 150, h |-> 150],
          [path |-> ve.Square44x44Logo, w |-> 44, h |-> 44],
          [path |-> ve.Wide310x150Logo, w |-> 310, h |-> 150],
          [path |-> ve.Square310x310Logo, w |-> 310, h |-> 310],
          [path |-> ve.Square71x71Logo, w |-> 71, h |-> 71] }

\* the entry is an alias without scale: a file of the assets directory that
\* holds the rendering of a tile of w by h at scale 100
UnscaledAlias(e, w, h) ==
    /\ e.value = joinFile(<<"msix", "build", "assets">>, e.key.stem, PNG)
    /\ e.value \in DOMAIN disk
    /\ disk[e.value] = "png " \o ToString(w) \o "x" \o ToString(h)
    /\ \A s \in ScaleValues :
           \A d \in DimensionNumbers : e.key # IconKey(d, s)

\* C21: for every application id, each asset path the manifest refers to (the
\* store logo and the five tile logos) is the package-relative path of an
\* alias without scale that makeAppXImages has written and registered in its
\* mapping in the same run, and the merged mapping keeps that entry.
C21_ManifestAssetsAreRegisteredAliases ==
    (manifestXML # <<>>) =>
        /\ Cardinality(ManifestAssetReferences(manifestXML)) = 6
        /\ \A r \in ManifestAssetReferences(manifestXML) :
               \E e \in RangeOf(imageAssetMapping) :
                   /\ pathString(e.key) = r.path
                   /\ UnscaledAlias(e, r.w, r.h)
                   /\ manifestMapping # <<>> => e \in RangeOf(manifestMapping)

\* C21 witness: a run whose application id is a configured one with a
\* character outside A-Z has written its manifest and merged its mappings
C21_Witness ==
    /\ manifestXML # <<>>
    /\ manifestMapping # <<>>
    /\ "internalAppID" \in DOMAIN config
    /\ appID = "my.app"
    /\ result = "resolved"

\* C22: once writeContentTypeXML has returned, its mapping, and the merged
\* mapping once it is built, has the key [Content_Types].xml, the path of the
\* document in the package, and its value is the path of the file written.
C22_ContentTypesRegisteredUnderItsName ==
    (contentTypeFileMapping # <<>>) =>
        /\ contentTypePath \in DOMAIN disk
        /\ \E e \in RangeOf(contentTypeFileMapping) :
               /\ pathString(e.key) = "[Content_Types].xml"
               /\ e.value = contentTypePath
        /\ manifestMapping # <<>> =>
               \E e \in RangeOf(manifestMapping) :
                   /\ pathString(e.key) = "[Content_Types].xml"
                   /\ e.value = contentTypePath

\* the positions in calls of the invocations of the resource-indexing tool
MakePRICalls == { i \in 1..Len(calls) : calls[i].tool = "makepri" }

\* make has gone past makePRI towards packaging
ReachedPackaging ==
    \/ pc \in {"content_type", "serialize", "pack", "codesign_file", "copy_latest",
               "returned"}
    \/ \E c \in RangeOf(calls) : c.tool = "makeappx"

\* C23: in a run that has reached packaging the resource-indexing tool has
\* been invoked twice, with createconfig and then with new, both have exited
\* with code 0, and both stand before the invocation of the packaging tool; an
\* invocation that exits with another code is the last thing the run does:
\* make rejects, and no index, no second invocation and no packaging follow.
C23_IndexingTwiceInOrderBeforePacking ==
    /\ ReachedPackaging =>
           \E j \in MakePRICalls : \E k \in MakePRICalls :
               /\ j < k
               /\ MakePRICalls = {j, k}
               /\ calls[j].arg = "createconfig" /\ calls[j].exit = 0
               /\ calls[k].arg = "new" /\ calls[k].exit = 0
               /\ \A i \in 1..Len(calls) : calls[i].tool = "makeappx" => k < i
    /\ \A i \in MakePRICalls :
           /\ calls[i].arg = "new" =>
                  /\ i > 1
                  /\ calls[i - 1] = RunCall("makepri", "createconfig", 0)
           /\ calls[i].exit # 0 =>
                  /\ i = Len(calls)
                  /\ result = "rejected"
                  /\ error = "Running makepri returned nonzero"
                  /\ priFileMapping = <<>>
                  /\ artifacts = <<>>

\* C23 witness: the packaging tool has been spawned in a run of make
C23_Witness ==
    /\ \E c \in RangeOf(calls) : c.tool = "makeappx"
    /\ Cardinality(MakePRICalls) = 2
    /\ pc = "codesign_file"

RECURSIVE ExpectedEntryLines(_, _, _)
\* the text of the entries lo..hi of a mapping: for each entry a line break,
\* the quoted source path, a space and the quoted package path
ExpectedEntryLines(mapping, lo, hi) ==
    IF lo > hi THEN ""
    ELSE IF lo = hi
         THEN "\r\n" \o "\"" \o pathString(mapping[lo].value) \o "\""
                  \o " " \o "\"" \o pathString(mapping[lo].key) \o "\""
         ELSE ExpectedEntryLines(mapping, lo, (lo + hi) \div 2)
                  \o ExpectedEntryLines(mapping, ((lo + hi) \div 2) + 1, hi)

\* the text of a mapping: the header line, then its entries in order
ExpectedMappingText(mapping) ==
    "[Files]" \o ExpectedEntryLines(mapping, 1, Len(mapping))

\* the number of line breaks \r\n in a text
LineBreaks(text) ==
    Cardinality({ i \in 1..(Len(text) - 1) : SubSeq(text, i, i + 1) = "\r\n" })

\* C24: the file writeMappingFile has written for a mapping holds the line
\* [Files] and then, for each entry in the order of the mapping, one line
\* with the quoted source path, a space and the quoted package path; the
\* lines are joined by CRLF and there is one line more than the mapping has keys.
C24_MappingFileListsEveryEntryOnce ==
    (mappingWrite = "done") =>
        /\ fileMappingFilenameOnDisk \in DOMAIN disk
        /\ disk[fileMappingFilenameOnDisk] =
               ExpectedMappingText(manifestMapping)
        /\ LineBreaks(disk[fileMappingFilenameOnDisk]) + 1
               = 1 + Cardinality(Keys(manifestMapping))

\* C24 witness: the file has been written for a mapping of three to five
\* entries, the manifest among them
C24_Witness ==
    /\ mappingWrite = "done"
    /\ Len(manifestMapping) >= 3
    /\ Len(manifestMapping) <= 5
    /\ manifestKey \in Keys(manifestMapping)

\* an update-feed base URL is configured: given and not empty
BaseURLConfigured ==
    "baseDownloadURL" \in DOMAIN config /\ config["baseDownloadURL"] # ""

\* the directory of the artifacts and the names make gives them
ArtifactDir == << Join(options.appName) \o "-" \o options.targetArch \o "-msix" >>

ArtifactPrefix == Join(options.appName) \o "-" \o options.targetArch

ExpectedPackage ==
    joinFile(ArtifactDir, ArtifactPrefix \o "-" \o Join(ExpectedVersion(options.version)),
             MSIX)

ExpectedLatest == joinFile(ArtifactDir, ArtifactPrefix \o "-latest", MSIX)

ExpectedInstaller ==
    joinFile(ArtifactDir, ArtifactPrefix,
             <<"A", "p", "p", "I", "n", "s", "t", "a", "l", "l", "e", "r">>)

\* C25: the list make resolves with is the versioned package, the latest
\* alias and, if and only if a base URL is configured, the installer
\* descriptor, in this order: 3 entries with a base URL and 2 without, each a
\* path of a file that exists; and the installer descriptor is a file only
\* after makeAppInstaller has run with a base URL configured.
C25_ArtifactListInOrder ==
    /\ result = "resolved" =>
           /\ artifacts = IF BaseURLConfigured
                          THEN <<ExpectedPackage, ExpectedLatest, ExpectedInstaller>>
                          ELSE <<ExpectedPackage, ExpectedLatest>>
           /\ Len(artifacts) = IF BaseURLConfigured THEN 3 ELSE 2
           /\ \A i \in 1..Len(artifacts) :
                  /\ artifacts[i] # <<>>
                  /\ artifacts[i] \in DOMAIN disk
    /\ ExpectedInstaller \in DOMAIN disk =>
           /\ BaseURLConfigured
           /\ pc \notin {"remove_scratch", "copy_source", "codesign_dir", "prepare_out",
                         "inventory", "images", "publisher", "manifest", "installer"}
    /\ (result = "resolved" /\ BaseURLConfigured) => ExpectedInstaller \in DOMAIN disk

\* C25 witness: make has resolved with three artifacts
C25_Witness ==
    /\ result = "resolved"
    /\ BaseURLConfigured
    /\ Len(artifacts) = 3

\* the base URL without the slashes at its end
ExpectedBase(url) ==
    CHOOSE b \in { SubSeq(url, 1, n) : n \in 0..Len(url) } :
        /\ Len(b) = 0 \/ SubSeq(b, Len(b), Len(b)) # "/"
        /\ \A i \in (Len(b) + 1)..Len(url) : SubSeq(url, i, i) = "/"

\* C27: with a base URL configured, the download URL of the installer
\* descriptor, in MainBundle, UpdateUris and RepairUris alike, is the base URL
\* without the slashes at its end, one slash, and the file name of the
\* versioned package that make writes and returns.
C27_InstallerURLNamesThePackage ==
    (BaseURLConfigured /\ installerFilePath \in DOMAIN disk) =>
        LET doc == disk[installerFilePath]
            url == ExpectedBase(config["baseDownloadURL"]) \o "/" \o basename(ExpectedPackage)
        IN  /\ doc.MainBundle.Uri = url
            /\ doc.UpdateUris = <<url>>
            /\ doc.RepairUris = <<url>>
            /\ result = "resolved" =>
                   /\ artifacts[1] = ExpectedPackage
                   /\ artifacts[1] \in DOMAIN disk

\* C27 witness: make has resolved for the application My App 2 on arm64 with a
\* version of five components and a base URL that ends in two slashes
C27_Witness ==
    /\ result = "resolved"
    /\ appNameString = "My App 2"
    /\ options.targetArch = "arm64"
    /\ Len(options.version) = 9
    /\ config = ("appIcon" :> "appicon.png") @@ ("publisher" :> "CN=Test")
                    @@ ("baseDownloadURL" :> "https://example.com/apps//")
    /\ disk[installerFilePath].MainBundle.Uri =
           "https://example.com/apps/My App 2-arm64-1.2.3.4.msix"

\* the step writes the latest alias: the file appears or its content changes
LatestWritten ==
    /\ ExpectedLatest \in DOMAIN disk'
    /\ ExpectedLatest \notin DOMAIN disk \/ disk'[ExpectedLatest] # disk[ExpectedLatest]

\* C26: the latest alias is written by one step only, the copy that follows
\* packaging and the signing of the package: the packaging tool has exited
\* with code 0 and, with a credential configured, the last call is the sign
\* call on the package, which succeeded; the copy takes the content of the
\* versioned package and make resolves. Once make has resolved, the alias and
\* the versioned package are two files of the same directory with the same
\* content, the signed package when a credential is configured.
C26_LatestCopiedAfterPackAndSign ==
    [][ /\ LatestWritten =>
               /\ pc = "copy_latest"
               /\ RunCall("makeappx", "pack", 0) \in RangeOf(calls)
               /\ "codesign" \in DOMAIN config =>
                      calls[Len(calls)] = SignCall("files", TRUE)
               /\ disk'[ExpectedLatest] = disk[ExpectedPackage]
               /\ result' = "resolved"
        /\ result' = "resolved" =>
               /\ ExpectedLatest # ExpectedPackage
               /\ ExpectedLatest.dir = ExpectedPackage.dir
               /\ ExpectedLatest \in DOMAIN disk'
               /\ ExpectedPackage \in DOMAIN disk'
               /\ disk'[ExpectedLatest] = disk'[ExpectedPackage]
               /\ disk'[ExpectedPackage] =
                      IF "codesign" \in DOMAIN config THEN "msix signed" ELSE "msix"
      ]_vars

\* C26 witness: make has resolved with a credential configured, the sign call
\* on the package being the last call, and the alias holds the signed package
C26_Witness ==
    /\ result = "resolved"
    /\ "codesign" \in DOMAIN config
    /\ ExpectedLatest \in DOMAIN disk
    /\ disk[ExpectedLatest] = "msix signed"
    /\ calls[Len(calls)] = SignCall("files", TRUE)

\* C28: on a platform that is not the target platform no step of make
\* removes, creates or copies a file or a directory, spawns a process, calls a
\* tool or sets an environment variable.
C28_NoSideEffectOffTarget ==
    [][ ~isSupportedOnCurrentPlatform =>
            /\ disk' = disk
            /\ dirs' = dirs
            /\ calls' = calls
            /\ env' = env ]_vars

\* the lines of an output: the pieces between the line feeds, each without
\* the white space at its end; the last piece is the remainder after the last
\* line feed
ExpectedLog(out) ==
    [i \in 1..Len(split(out, "\n")) |-> trimEnd(split(out, "\n")[i])]

\* C29: once the child has exited and all it wrote has been delivered, in
\* whatever chunks and on whichever side of the exit event, run has resolved
\* with all the child wrote, or rejected, and has logged every line that ends
\* in a line feed once, in order, and then the remainder, once.
C29_RunReturnsAndLogsWholeOutput ==
    (proc # NoProcess /\ proc.exited /\ proc.pending = <<>>) =>
        /\ proc.settled = "resolved" => proc.value = proc.written
        /\ proc.log = ExpectedLog(proc.written)

\* the files the later stages generate below makeDir: the icons and their
\* aliases, the manifest, the resource index and its configuration, the
\* content-type document and the file-mapping file
GeneratedFiles ==
    { IconFile(d, s) : d \in DimensionNumbers, s \in ScaleValues \cup {0} }
        \cup { joinFile(<<"msix", "build">>, "AppxManifest", XML),
               joinFile(<<"msix", "build">>, "resources", PRI),
               joinFile(<<"msix", "build">>, "priconfig", XML),
               joinFile(<<"msix", "build">>, "[Content_Types]", XML),
               joinFile(ArtifactDir, "filemapping", TXT) }

\* the install mapping has one entry for each file of the source tree, under
\* the path of its staged copy from the scratch root on
OneEntryPerStagedFile ==
    /\ Len(installMapping) = Cardinality(options.dir)
    /\ Keys(installMapping) =
           { joinFile(<<Join(options.appName)>> \o f.dir, f.stem, f.ext) : f \in options.dir }
    /\ \A e \in RangeOf(installMapping) :
           e.value = joinFile(<<"msix", "build">> \o e.key.dir, e.key.stem, e.key.ext)

\* C30: once inventory has returned, and for the rest of the run, the install
\* mapping holds exactly one entry per staged application file, keyed by the
\* path of the file from the scratch root on, and the file an entry names is
\* the staged copy, never a file a later stage has generated: an icon, the
\* manifest, the resource index, the content-type document or the
\* file-mapping file.
C30_InstallMappingHoldsOnlyStagedFiles ==
    (installMapping # <<>>) =>
        /\ OneEntryPerStagedFile
        /\ \A e \in RangeOf(installMapping) :
               /\ e.value \in DOMAIN disk
               /\ e.value \in GeneratedFiles => disk[e.value] = "source"

====
